---- MODULE Spec2Model ----
(***************************************************************************)
(* Model of the signal-scoring and decision pipeline of trading-oracle:    *)
(* feature results, the Layer-1 scorer, the Layer-2 rules engine, the      *)
(* confidence adjustment stages and the backtest exit simulation.          *)
(*                                                                         *)
(* Prices are integers (whole price units).  Scores, weights and strengths *)
(* are fixed-point integers; the units are named where they are used.      *)
(* Python float arithmetic is modelled as exact arithmetic on these        *)
(* fixed-point values.                                                     *)
(***************************************************************************)
EXTENDS Integers, Sequences, FiniteSets, TLC

VARIABLES
    \* ---- Backtester._evaluate_decision (src/oracle/backtesting.py) ----
    bt_pc,            \* "idle" | "scan" | "done"
    decision,         \* the Decision under evaluation
    df_len,           \* len(df): rows returned by provider.fetch_ohlcv
    scan_i,           \* number of rows the for-loop has taken from df
    row,              \* the row of the current loop iteration
    max_favorable,
    max_adverse,
    exit_price,
    exit_reason,
    exit_index,
    outcome,          \* the returned TradeOutcome, or None
    first_breach,     \* history: the first row of df that reaches the stop or the target
    \* ---- DecisionEngine.generate_decision (src/oracle/engine/decision_engine.py) ----
    pc,               \* "idle" | "features" | "score" | "rules" | "params" | "done"
    caller,           \* which entry point started the evaluation
    market_type,
    timeframe,
    feature_weights,  \* custom weights: name -> weight, empty for None / {}
    df,               \* the OHLCV frame: sequence of [high, low, close]
    feature_list,
    feat_i,           \* position of the for-loop in feature_list (1-based)
    feature_results,  \* Layer1Scorer.feature_results
    errors,           \* positions whose calculation printed "Error calculating ..."
    raw_score,
    contributions,
    regime_context,
    signal,
    bias,
    confidence,
    trade_params,     \* entry_price, stop_loss, take_profit, risk_reward
    adjusted_score,   \* the score _score_to_signal was called with
    \* ---- BaseFeature.calculate / FeatureResult (src/oracle/features) ----
    fx_pc,            \* "idle" | "done" | "helper" (a helper of BaseFeature has returned)
    fx_feature,       \* the calculator that was called, or the direct constructor call
    context,          \* the context dict passed to calculate
    fx_call,          \* the arguments FeatureResult(...) was called with
    fx_result,        \* the FeatureResult that exists afterwards, or the exception
    adx_args,         \* adx, di_plus, di_minus of a call of BaseFeature._adx_trend_strength
    adx_return,       \* the (direction, strength) it returned
    \* ---- the confidence stages after Layer 2 (consensus_engine.py, enhanced_analysis.py) ----
    enhanced,         \* the EnhancedDecisionOutput, or NoEnhanced
    stages,           \* history: the stages that have set its confidence, in order
    consensus,        \* the ConsensusResult of the last adjust_confidence_by_consensus call
    base_confidence,  \* the base_confidence argument of that call
    consensus_explanation, \* the explanation that call returned
    filtered_from,    \* history: the decision the last stage, apply_quality_filters, was called with
    \* ---- ConsensusEngine (src/oracle/engine/consensus_engine.py) ----
    cs_pc,            \* "idle" | "calculated" | "gated"
    cs_results,       \* the feature_results calculate_consensus was called with
    cs_consensus,     \* the ConsensusResult it returned
    cs_min_pct,       \* min_consensus_pct of the should_fire_signal call
    cs_allow_conflicts,
    cs_gate,          \* (should_fire, reason) as should_fire_signal returned it
    \* ---- two calls of DecisionEngine.generate_decision on the same engine ----
    prev_run,         \* history: arguments, calculator outcomes and outputs of the first call
    \* ---- Backtester.run_backtest / _calculate_metrics (src/oracle/backtesting.py) ----
    bk_pc,            \* "collect" | "reported"
    bk_results,       \* self.results: the TradeOutcomes of the batch
    bk_metrics,       \* the PerformanceMetrics _calculate_metrics returned
    \* ---- Layer2Rules.apply_rules (src/oracle/engine/decision_engine.py) ----
    rl_pc,            \* "idle" | "regime" | "filters" | "conflicts" | "signal" | "returned"
    rl_results,       \* the feature_results the rules object was built with
    rl_contributions, \* the contributions it was built with
    rl_market_type,
    rl_raw_score,     \* the argument of apply_rules
    rl_regime,        \* self.regime_context
    rl_filtered,      \* filtered_score
    rl_adjusted,      \* adjusted_score
    rl_output,        \* signal, bias and confidence as returned
    \* ---- EnhancedAnalyzer._calculate_quality_score (src/oracle/engine/enhanced_analysis.py) ----
    qa_pc,            \* "idle" | "decided" | "analyzed"
    qa_output,        \* standard_output: the DecisionOutput that is analyzed
    qa_data,          \* what df and context hold
    qa_regime_score,  \* the value _check_regime_alignment returned
    qa_quality        \* quality_score

btVars == <<bt_pc, decision, df_len, scan_i, row, max_favorable, max_adverse,
            exit_price, exit_reason, exit_index, outcome, first_breach>>

deVars == <<pc, caller, market_type, timeframe, feature_weights, df, feature_list, feat_i,
            feature_results, errors, raw_score, contributions, regime_context,
            signal, bias, confidence, trade_params, adjusted_score>>

fxVars == <<fx_pc, fx_feature, context, fx_call, fx_result, adx_args, adx_return>>

cfVars == <<enhanced, stages, consensus, base_confidence, consensus_explanation,
            filtered_from>>

csVars == <<cs_pc, cs_results, cs_consensus, cs_min_pct, cs_allow_conflicts, cs_gate>>

rrVars == <<prev_run>>

bkVars == <<bk_pc, bk_results, bk_metrics>>

rlVars == <<rl_pc, rl_results, rl_contributions, rl_market_type, rl_raw_score,
            rl_regime, rl_filtered, rl_adjusted, rl_output>>

qaVars == <<qa_pc, qa_output, qa_data, qa_regime_score, qa_quality>>

vars == <<btVars, deVars, fxVars, cfVars, csVars, rrVars, bkVars, rlVars, qaVars>>

None == "None"

Abs(x) == IF x < 0 THEN -x ELSE x

Min(a, b) == IF a <= b THEN a ELSE b

Max(a, b) == IF a >= b THEN a ELSE b

BuySignals == {"STRONG_BUY", "BUY", "WEAK_BUY"}

SellSignals == {"STRONG_SELL", "SELL", "WEAK_SELL"}

----------------------------------------------------------------------------
(* Feature results and the registry                                        *)

\* A float that is not a number (NaN): every comparison with it is false.
NaN == -999999

\* A metadata key that is not in the dict / a dict key that is absent.
Absent == "absent"

\* metadata without a 'percentile' key; percentiles are in hundredths.
NoPercentile == -1

\* Strengths are in thousandths: One stands for 1.0.
One == 1000

\* Scores and contributions are in millionths: ScoreScale stands for 1.0.
ScoreScale == 1000000

\* weight (tenths) x direction x strength (thousandths), in score units.
ContributionUnit == 100

\* FeatureResult(name, category, raw_value, direction, strength, metadata)
\* with the two metadata keys the rules engine reads.
FR(n, c, raw, d, s, pct, sq) ==
    [ name |-> n, category |-> c, raw_value |-> raw, direction |-> d, strength |-> s,
      percentile |-> pct, is_squeeze |-> sq ]

\* The names registered by the feature modules that the model keeps, in
\* registration order (technical, macro, crypto, sentiment).
RegistryList == <<"RSI", "BBWidth", "ATR", "ADX", "DXY", "FundingRate", "NewsSentiment">>

Registered == { RegistryList[i] : i \in 1..Len(RegistryList) }

Category(n) ==
    CASE n \in {"RSI", "ADX"}        -> "TECHNICAL"
      [] n \in {"BBWidth", "ATR"}    -> "VOLATILITY"
      [] n = "DXY"                   -> "MACRO"
      [] n = "FundingRate"           -> "CRYPTO_DERIVATIVES"
      [] OTHER                       -> "SENTIMENT"

\* getattr(feature, 'applicable_spot', True): no feature class sets the
\* attribute, so the default is what every lookup returns.
ApplicableAttr(n, attr) == TRUE

\* Layer1Scorer._is_applicable
IsApplicable(n, mt) ==
    IF mt = "SPOT" THEN ApplicableAttr(n, "applicable_spot")
    ELSE IF mt \in {"PERPETUAL", "FUTURES"} THEN ApplicableAttr(n, "applicable_derivatives")
    ELSE TRUE

AtrPeriods == 14

\* Length of the frames that are long enough for the 14-period ATR.
SeriesLen == 15

FlatSeries == [i \in 1..SeriesLen |-> [high |-> 100, low |-> 100, close |-> 100]]

ZigzagSeries ==
    [i \in 1..SeriesLen |->
        LET c == 100 + 3 * (i % 2) IN [high |-> c + 1, low |-> c - 2, close |-> c]]

RangeSeries == [i \in 1..SeriesLen |-> [high |-> 102, low |-> 98, close |-> 100]]

ShortSeries == [i \in 1..(AtrPeriods - 1) |-> [high |-> 102, low |-> 98, close |-> 100]]

PriceSeries == {FlatSeries, ZigzagSeries, RangeSeries, ShortSeries}

IsFlat(s) == \A i \in 1..Len(s) : s[i].high = s[i].low /\ s[i].close = s[1].close

Raises == [raises |-> TRUE, result |-> FR("", "", 0, 0, 0, NoPercentile, Absent)]

Returns(r) == [raises |-> FALSE, result |-> r]

\* What feature.calculate(df, ..., context) can do for the frame df and some
\* context: the FeatureResult it returns, or an exception.  On a flat frame the
\* indicators are degenerate: RSI is NaN and its FeatureResult fails the
\* strength assertion, ADX is NaN, the ATR percentile is 0 and the band width
\* is "normal".
Outcomes(n, s) ==
    CASE n = "RSI" ->
            IF IsFlat(s) \/ Len(s) <= AtrPeriods THEN {Raises}
            ELSE { Raises,
                   Returns(FR("RSI", "TECHNICAL", 0, 1, 1000, NoPercentile, Absent)),
                   Returns(FR("RSI", "TECHNICAL", 85, -1, 500, NoPercentile, Absent)) }
      [] n = "BBWidth" ->
            IF IsFlat(s) \/ Len(s) <= AtrPeriods
            THEN { Returns(FR("BBWidth", "VOLATILITY", 0, 0, 200, NoPercentile, "NO")) }
            ELSE { Returns(FR("BBWidth", "VOLATILITY", 1, 0, 700, NoPercentile, "YES")),
                   Returns(FR("BBWidth", "VOLATILITY", 2, 0, 200, NoPercentile, "NO")) }
      [] n = "ATR" ->
            IF IsFlat(s) THEN { Returns(FR("ATR", "VOLATILITY", 0, 0, 500, 0, Absent)) }
            ELSE IF Len(s) < AtrPeriods
            THEN { Returns(FR("ATR", "VOLATILITY", NaN, 0, 200, 50, Absent)) }
            ELSE { Returns(FR("ATR", "VOLATILITY", 4, 0, 300, 90, Absent)),
                   Returns(FR("ATR", "VOLATILITY", 4, 0, 200, 50, Absent)) }
      [] n = "ADX" ->
            IF IsFlat(s) THEN { Returns(FR("ADX", "TECHNICAL", NaN, 0, 0, NoPercentile, Absent)) }
            ELSE { Returns(FR("ADX", "TECHNICAL", 15, 0, 0, NoPercentile, Absent)),
                   Returns(FR("ADX", "TECHNICAL", 29, 1, 500, NoPercentile, Absent)),
                   Returns(FR("ADX", "TECHNICAL", 60, -1, 600, NoPercentile, Absent)) }
      [] n = "DXY" ->
            { Returns(FR("DXY", "MACRO", 0, 0, 0, NoPercentile, Absent)),
              Returns(FR("DXY", "MACRO", 104, -1, 1000, NoPercentile, Absent)),
              Returns(FR("DXY", "MACRO", 99, 1, 1000, NoPercentile, Absent)) }
      [] n = "FundingRate" ->
            { Returns(FR("FundingRate", "CRYPTO_DERIVATIVES", 0, 0, 0, NoPercentile, Absent)),
              Returns(FR("FundingRate", "CRYPTO_DERIVATIVES", 10, -1, 1000, 90, Absent)),
              Returns(FR("FundingRate", "CRYPTO_DERIVATIVES", -7, 1, 1000, 10, Absent)) }
      [] n = "NewsSentiment" ->
            { Returns(FR("NewsSentiment", "SENTIMENT", 0, 0, 0, NoPercentile, Absent)),
              Returns(FR("NewsSentiment", "SENTIMENT", 5, 1, 1000, NoPercentile, Absent)) }
      [] OTHER -> {Raises}

----------------------------------------------------------------------------
(* Feature calculators and the context bundles                             *)

PostInitAcceptsAnyStrength(direction, strength) == direction \in {-1, 0, 1}

\* FeatureResult.__post_init__: the two assertions.  A NaN strength fails
\* "0 <= strength <= 1" because every comparison with NaN is false.
PostInitAccepts(direction, strength) ==
    /\ direction \in {-1, 0, 1}
    /\ strength # NaN /\ 0 <= strength /\ strength <= One

\* context['macro']: the VIX frame is the one macro series the model keeps.
NoMacro == [present |-> FALSE, has_vix |-> FALSE, vix_rows |-> 0, vix_close |-> 0]

MacroBundles ==
    { NoMacro,
      [present |-> TRUE, has_vix |-> FALSE, vix_rows |-> 0, vix_close |-> 0],
      [present |-> TRUE, has_vix |-> TRUE, vix_rows |-> 0, vix_close |-> 0],
      [present |-> TRUE, has_vix |-> TRUE, vix_rows |-> 3, vix_close |-> 50] }
    \cup { [present |-> TRUE, has_vix |-> TRUE, vix_rows |-> 60, vix_close |-> v] :
             v \in {10, 20, 28, 50, 80} }

\* context['intermarket']: XAGUSD close and the optional
\* GOLD_SILVER_RATIO_SMA50 (thousandths).
NoIntermarket ==
    [present |-> FALSE, has_xagusd |-> FALSE, silver_close |-> 0,
     has_sma50 |-> FALSE, ratio_sma50 |-> 0]

IntermarketBundles ==
    { NoIntermarket,
      [NoIntermarket EXCEPT !.present = TRUE],
      [present |-> TRUE, has_xagusd |-> TRUE, silver_close |-> 30,
       has_sma50 |-> TRUE, ratio_sma50 |-> 60000] }
    \cup { [present |-> TRUE, has_xagusd |-> TRUE, silver_close |-> s,
            has_sma50 |-> FALSE, ratio_sma50 |-> 0] : s \in {21, 30, 42} }

\* context['derivatives']: the funding_rate frame (its last rate in
\* thousandths and how many of the last 30 rates lie below it) and the
\* mark / index prices.
NoDerivatives ==
    [present |-> FALSE, has_funding_rate |-> FALSE, funding_rows |-> 0, rate |-> 0,
     below_count |-> 0, has_prices |-> FALSE, mark_price |-> 0, index_price |-> 0]

FundingFrames ==
    { [has_funding_rate |-> FALSE, funding_rows |-> 0, rate |-> 0, below_count |-> 0],
      [has_funding_rate |-> TRUE, funding_rows |-> 0, rate |-> 0, below_count |-> 0] }
    \cup { [has_funding_rate |-> TRUE, funding_rows |-> 1, rate |-> f, below_count |-> 0] :
             f \in {-30, 0, 15} }
    \cup { [has_funding_rate |-> TRUE, funding_rows |-> 30, rate |-> f, below_count |-> c] :
             f \in {-60, 120}, c \in {3, 27} }

PricePairs ==
    { [has_prices |-> FALSE, mark_price |-> 0, index_price |-> 0] }
    \cup { [has_prices |-> TRUE, mark_price |-> m, index_price |-> 1000] :
             m \in {990, 1004, 1030} }

DerivativesBundles ==
    { NoDerivatives }
    \cup { [present |-> TRUE, has_funding_rate |-> f.has_funding_rate,
            funding_rows |-> f.funding_rows, rate |-> f.rate, below_count |-> f.below_count,
            has_prices |-> q.has_prices, mark_price |-> q.mark_price,
            index_price |-> q.index_price] : f \in FundingFrames, q \in PricePairs }

\* context['sentiment']: fear_index and urgency in thousandths (a missing key
\* reads as 0.0).
NoSentiment == [present |-> FALSE, fear_index |-> 0, urgency |-> 0]

SentimentBundles ==
    { NoSentiment }
    \cup { [present |-> TRUE, fear_index |-> f, urgency |-> u] :
             f \in {-800, 0, 50, 200, 800}, u \in {0, 1000} }

\* context=None
NoneContext ==
    [is_none |-> TRUE, macro |-> NoMacro, intermarket |-> NoIntermarket,
     derivatives |-> NoDerivatives, sentiment |-> NoSentiment, orderbook |-> FALSE]

\* The contexts a caller passes: None, {} and every combination of bundles.
Contexts ==
    { NoneContext }
    \cup { [is_none |-> FALSE, macro |-> m, intermarket |-> i, derivatives |-> d,
            sentiment |-> s, orderbook |-> o] :
             m \in MacroBundles, i \in IntermarketBundles, d \in DerivativesBundles,
             s \in SentimentBundles, o \in BOOLEAN }

\* "not context": None and the empty dict are falsy.
NotContext(ctx) ==
    \/ ctx.is_none
    \/ ~(ctx.macro.present \/ ctx.intermarket.present \/ ctx.derivatives.present
         \/ ctx.sentiment.present \/ ctx.orderbook)

\* macro._has_macro_series
HasMacroSeries(ctx, key, min_rows) ==
    IF NotContext(ctx) \/ ~ctx.macro.present THEN FALSE
    ELSE IF key # "VIX" \/ ~ctx.macro.has_vix \/ ctx.macro.vix_rows = 0 THEN FALSE
    ELSE ctx.macro.vix_rows >= min_rows

\* The call FeatureResult(name=..., direction=..., strength=...,
\* explanation=...) a calculator ends with.
Call(n, d, s, e) ==
    [raises |-> FALSE, name |-> n, direction |-> d, strength |-> s, explanation |-> e]

\* An exception raised before any FeatureResult is constructed.
RaisesBeforeCall(n) ==
    [raises |-> TRUE, name |-> n, direction |-> 0, strength |-> 0, explanation |-> ""]

\* VIXFeature.calculate
VIXCalculate(ctx) ==
    IF ~HasMacroSeries(ctx, "VIX", 5)
    THEN Call("VIX", 0, 0, "VIX data not available")
    ELSE IF ctx.macro.vix_rows < 5
    THEN Call("VIX", 0, 0, "Insufficient VIX data")
    ELSE LET current_vix == ctx.macro.vix_close IN
         IF current_vix > 35
         THEN Call("VIX", 1, Min(One, ((current_vix - 35) * One) \div 30),
                   "extreme fear, contrarian bullish")
         ELSE IF current_vix > 25
         THEN Call("VIX", -1, ((current_vix - 25) * One) \div 15, "elevated fear, bearish")
         ELSE IF current_vix < 15
         THEN Call("VIX", -1, 300, "complacency, caution")
         ELSE Call("VIX", 0, 200, "normal levels")

\* GoldSilverRatioFeature.calculate; close is df['close'].iloc[-1], the ratio
\* is in thousandths.
GoldSilverRatioCalculate(ctx, close) ==
    IF NotContext(ctx) \/ ~ctx.intermarket.present \/ ~ctx.intermarket.has_xagusd
    THEN Call("GoldSilverRatio", 0, 0, "Silver data not available")
    ELSE LET ratio == (close * One) \div ctx.intermarket.silver_close
             ratio_sma_50 == IF ctx.intermarket.has_sma50
                             THEN ctx.intermarket.ratio_sma50 ELSE ratio
         IN
         IF ratio > 85 * One
         THEN Call("GoldSilverRatio", -1, Min(One, (ratio - 85 * One) \div 20),
                   "ratio high - potential reversion")
         ELSE IF ratio < 60 * One
         THEN Call("GoldSilverRatio", 1, Min(One, (60 * One - ratio) \div 20),
                   "ratio low - gold may outperform")
         ELSE IF ratio * 100 > ratio_sma_50 * 105
         THEN Call("GoldSilverRatio", -1, 400, "ratio above MA50")
         ELSE IF ratio * 100 < ratio_sma_50 * 95
         THEN Call("GoldSilverRatio", 1, 400, "ratio below MA50")
         ELSE Call("GoldSilverRatio", 0, 200, "ratio normal")

\* FundingRateFeature.calculate; "rate.iloc[-1]" on an empty frame raises
\* IndexError, funding_percentile > 0.8 is below_count > 24 of 30.
FundingRateCalculate(ctx) ==
    IF NotContext(ctx) \/ ~ctx.derivatives.present \/ ~ctx.derivatives.has_funding_rate
    THEN Call("FundingRate", 0, 0, "Funding rate data not available")
    ELSE IF ctx.derivatives.funding_rows = 0
    THEN RaisesBeforeCall("FundingRate")
    ELSE LET current_funding == ctx.derivatives.rate
             below == ctx.derivatives.below_count
         IN
         IF current_funding > 50 /\ below > 24
         THEN Call("FundingRate", -1, Min(One, (current_funding - 50) * 20),
                   "Funding extremely positive - crowded longs, risk of squeeze")
         ELSE IF current_funding < -20 /\ below < 6
         THEN Call("FundingRate", 1, Min(One, Abs(current_funding) * 20),
                   "Funding negative - crowded shorts, risk of squeeze")
         ELSE IF current_funding > 10
         THEN Call("FundingRate", -1, 300, "Funding moderately positive")
         ELSE IF current_funding < -10
         THEN Call("FundingRate", 1, 300, "Funding moderately negative")
         ELSE Call("FundingRate", 0, 100, "Funding neutral")

\* BasisFeature.calculate; basis_pct in thousandths of a percent.
BasisCalculate(ctx) ==
    IF NotContext(ctx) \/ ~ctx.derivatives.present
    THEN Call("Basis", 0, 0, "Derivatives data not available")
    ELSE IF ~ctx.derivatives.has_prices
    THEN Call("Basis", 0, 0, "Mark/index price not available")
    ELSE LET basis_pct == ((ctx.derivatives.mark_price - ctx.derivatives.index_price)
                              * 100 * One) \div ctx.derivatives.index_price
         IN
         IF basis_pct > 500
         THEN Call("Basis", 1, Min(One, basis_pct \div 2), "premium - bullish sentiment")
         ELSE IF basis_pct < -200
         THEN Call("Basis", -1, Min(One, Abs(basis_pct)), "discount - bearish sentiment")
         ELSE Call("Basis", 0, 200, "Basis near parity")

\* NewsSentimentFeature.calculate
NewsSentimentCalculate(ctx) ==
    IF NotContext(ctx) \/ ~ctx.sentiment.present
    THEN Call("NewsSentiment", 0, 0, "News sentiment data not available")
    ELSE LET fear_index == ctx.sentiment.fear_index
             direction == IF fear_index > 100 THEN 1 ELSE IF fear_index < -100 THEN -1 ELSE 0
             strength == IF direction # 0 THEN Min(One, Abs(fear_index) * 2) ELSE 300
             explanation == IF direction = 1 THEN "High market fear - bullish for gold"
                            ELSE IF direction = -1
                            THEN "Market complacency - bearish for gold"
                            ELSE "Neutral sentiment"
         IN Call("NewsSentiment", direction,
                 IF ctx.sentiment.urgency > 500 THEN Min(One, (strength * 13) \div 10)
                 ELSE strength,
                 explanation)

\* MarketFearGaugeFeature.calculate: 60% VIX score, 40% news fear index.
MarketFearGaugeCalculate(ctx) ==
    IF NotContext(ctx)
    THEN Call("MarketFearGauge", 0, 0, "Context data not available")
    ELSE LET vix_part == IF ctx.macro.present /\ ctx.macro.has_vix /\ ctx.macro.vix_rows > 0
                         THEN (ctx.macro.vix_close - 15) * 30 ELSE 0
             news_part == IF ctx.sentiment.present
                          THEN (ctx.sentiment.fear_index * 4) \div 10 ELSE 0
             fear_score == vix_part + news_part
         IN
         IF fear_score > 300
         THEN Call("MarketFearGauge", 1, Min(One, Abs(fear_score)),
                   "Elevated fear - bullish for gold")
         ELSE IF fear_score < -300
         THEN Call("MarketFearGauge", -1, Min(One, Abs(fear_score)),
                   "Low fear - bearish for gold")
         ELSE Call("MarketFearGauge", 0, 300, "Normal fear levels")

\* The calculators that read a context bundle.
Calculators ==
    {"VIX", "GoldSilverRatio", "FundingRate", "Basis", "NewsSentiment", "MarketFearGauge"}

\* feature.calculate(df, symbol, timeframe, market_type, context) up to its
\* final FeatureResult(...) call.
CalculateOf(n, ctx, close) ==
    CASE n = "VIX"             -> VIXCalculate(ctx)
      [] n = "GoldSilverRatio" -> GoldSilverRatioCalculate(ctx, close)
      [] n = "FundingRate"     -> FundingRateCalculate(ctx)
      [] n = "Basis"           -> BasisCalculate(ctx)
      [] n = "NewsSentiment"   -> NewsSentimentCalculate(ctx)
      [] n = "MarketFearGauge" -> MarketFearGaugeCalculate(ctx)

\* Last close of the gold frame the calculators are called with.
GoldCloses == {2100}

\* Arguments a caller passes when it constructs a FeatureResult itself.
Directions == {-2, -1, 0, 1, 2}

Strengths == {NaN, -1, 0, 500, One, One + 1}

NoCall == [raises |-> FALSE, name |-> "", direction |-> 0, strength |-> 0, explanation |-> ""]

NoObject == [name |-> "", direction |-> 0, strength |-> 0, explanation |-> ""]

NoResult == [raised |-> FALSE, exists |-> FALSE, object |-> NoObject]

\* The dataclass constructor: __init__ stores the fields, __post_init__
\* asserts; a failed assertion leaves no object.
ConstructOf(call) ==
    IF call.raises THEN [raised |-> TRUE, exists |-> FALSE, object |-> NoObject]
    ELSE IF PostInitAccepts(call.direction, call.strength)
    THEN [raised |-> FALSE, exists |-> TRUE,
          object |-> [name |-> call.name, direction |-> call.direction,
                      strength |-> call.strength, explanation |-> call.explanation]]
    ELSE [raised |-> TRUE, exists |-> FALSE, object |-> NoObject]

\* BaseFeature._adx_trend_strength.  adx, di_plus and di_minus are whole
\* points or NaN; the strength is in 1/AdxStrengthUnit, which holds x/40,
\* x/22 and their products with 1.2 exactly.
AdxStrengthUnit == 4400

\* A variant that also boosts a spread of exactly 20.
DiSpreadIsLargeInclusive(di_spread) == di_spread >= 20

\* "if di_spread > 20"
DiSpreadIsLarge(di_spread) == di_spread > 20

AdxTrendStrengthOf(adx, di_plus, di_minus) ==
    IF adx # NaN /\ adx < 18 THEN [direction |-> 0, strength |-> 0]
    ELSE IF di_plus = NaN \/ di_minus = NaN \/ di_plus = di_minus
    THEN [direction |-> 0, strength |-> 0]
    ELSE
      LET direction == IF di_plus > di_minus THEN 1 ELSE -1
          base == IF adx # NaN /\ adx >= 40
                  THEN Min(AdxStrengthUnit, (adx - 40) * (AdxStrengthUnit \div 40))
                  ELSE IF adx = NaN THEN NaN
                  ELSE (adx - 18) * (AdxStrengthUnit \div 22)
          di_spread == Abs(di_plus - di_minus)
      IN [ direction |-> direction,
           strength |-> IF base = NaN THEN NaN
                        ELSE IF DiSpreadIsLarge(di_spread)
                        THEN Min(AdxStrengthUnit, (base * 6) \div 5)
                        ELSE base ]

\* The values ADXFeature.calculate passes: the last ADX, +DI and -DI.
AdxValues == {NaN, 0, 17, 18, 29, 39, 40, 45, 60, 80, 95}

DiValues == {NaN, 0, 10, 25, 30, 31, 50}

NoAdxArgs == [adx |-> 0, di_plus |-> 0, di_minus |-> 0]

NoAdxReturn == [direction |-> 0, strength |-> 0]

FxInit ==
    /\ fx_pc = "idle"
    /\ fx_feature = Absent
    /\ context = NoneContext
    /\ fx_call = NoCall
    /\ fx_result = NoResult
    /\ adx_args = NoAdxArgs
    /\ adx_return = NoAdxReturn

\* feature.calculate(...) of one calculator with one context.
Calculate ==
    /\ fx_pc = "idle"
    /\ \E n \in Calculators, ctx \in Contexts, close \in GoldCloses :
          /\ fx_feature' = n
          /\ context' = ctx
          /\ fx_call' = CalculateOf(n, ctx, close)
          /\ fx_result' = ConstructOf(CalculateOf(n, ctx, close))
    /\ fx_pc' = "done"
    /\ UNCHANGED <<adx_args, adx_return>>

\* FeatureResult(...) called directly with arbitrary direction and strength.
ConstructFeatureResult ==
    /\ fx_pc = "idle"
    /\ \E d \in Directions, s \in Strengths :
          /\ fx_call' = Call("Direct", d, s, "constructed directly")
          /\ fx_result' = ConstructOf(Call("Direct", d, s, "constructed directly"))
    /\ fx_feature' = "FeatureResult"
    /\ context' = NoneContext
    /\ fx_pc' = "done"
    /\ UNCHANGED <<adx_args, adx_return>>

\* direction, strength = self._adx_trend_strength(current_adx, current_plus_di,
\* current_minus_di)
AdxTrendStrength ==
    /\ fx_pc = "idle"
    /\ \E adx \in AdxValues, di_plus \in DiValues, di_minus \in DiValues :
          /\ adx_args' = [adx |-> adx, di_plus |-> di_plus, di_minus |-> di_minus]
          /\ adx_return' = AdxTrendStrengthOf(adx, di_plus, di_minus)
    /\ fx_feature' = "_adx_trend_strength"
    /\ fx_pc' = "helper"
    /\ UNCHANGED <<context, fx_call, fx_result>>

\* The result (or the exception) has been handed to the caller.
DropResult ==
    /\ fx_pc \in {"done", "helper"}
    /\ fx_pc' = "idle"
    /\ fx_feature' = Absent
    /\ context' = NoneContext
    /\ fx_call' = NoCall
    /\ fx_result' = NoResult
    /\ adx_args' = NoAdxArgs
    /\ adx_return' = NoAdxReturn

----------------------------------------------------------------------------
(* Layer 1: feature scoring                                                *)

MarketTypes == {"SPOT", "PERPETUAL"}

\* One timeframe of each weight preset (short, medium, long).
EngineTimeframes == {"1h", "1d", "1w"}

\* timeframe_weights.get(feature_name, 1.0)
DefaultWeight == 10

\* Layer1Scorer._get_default_timeframe_weights looked up with the default of
\* _get_weight, in tenths.
DefaultTimeframeWeights(tf, n) ==
    IF tf \in {"15m", "1h", "4h"} THEN
        CASE n = "RSI" -> 12 [] n = "Stochastic" -> 11 [] n = "MACD" -> 10
          [] n = "BollingerBands" -> 11 [] n = "VWAP" -> 13 [] n = "VolumeRatio" -> 12
          [] n = "FundingRate" -> 13 [] n = "Liquidations" -> 14 [] n = "ADX" -> 8
          [] n = "EMA_20_50" -> 9 [] n = "Supertrend" -> 9 [] n = "DXY" -> 5
          [] n = "VIX" -> 6 [] n = "RealYields" -> 3
          [] OTHER -> DefaultWeight
    ELSE IF tf \in {"1d"} THEN
        CASE n = "RSI" -> 10 [] n = "MACD" -> 10 [] n = "ADX" -> 12
          [] n = "EMA_20_50" -> 13 [] n = "Supertrend" -> 12 [] n = "BBWidth" -> 11
          [] n = "DXY" -> 10 [] n = "VIX" -> 9 [] n = "RealYields" -> 11
          [] n = "FundingRate" -> 10 [] n = "OpenInterest" -> 11
          [] n = "GoldSilverRatio" -> 10
          [] OTHER -> DefaultWeight
    ELSE
        CASE n = "ADX" -> 13 [] n = "EMA_20_50" -> 15 [] n = "Supertrend" -> 13
          [] n = "DXY" -> 14 [] n = "RealYields" -> 15 [] n = "VIX" -> 10
          [] n = "GoldSilverRatio" -> 12 [] n = "MinersGoldRatio" -> 12
          [] n = "GLDFlow" -> 11 [] n = "RSI" -> 7 [] n = "Stochastic" -> 5
          [] n = "VWAP" -> 3 [] n = "FundingRate" -> 6
          [] OTHER -> DefaultWeight

\* Custom weight maps a caller passes: none, and two that override some names.
NoWeights == [n \in {} |-> 0]

WeightMaps ==
    { NoWeights,
      [n \in {"RSI", "DXY", "NewsSentiment"} |-> IF n = "NewsSentiment" THEN 0 ELSE 30],
      [n \in {"RSI", "DXY", "FundingRate"} |-> IF n = "FundingRate" THEN 20 ELSE 60] }

GetWeightIgnoringCustom(n, custom, tf) == DefaultTimeframeWeights(tf, n)

\* Layer1Scorer._get_weight
GetWeight(n, custom, tf) ==
    IF DOMAIN custom # {} /\ n \in DOMAIN custom THEN custom[n]
    ELSE DefaultTimeframeWeights(tf, n)

\* The dict appended to contributions for one result.
ContributionOf(r, custom, tf) ==
    LET w == GetWeight(r.name, custom, tf) IN
    [ name |-> r.name, category |-> r.category, direction |-> r.direction,
      strength |-> r.strength, weight |-> w,
      contribution |-> w * r.direction * r.strength * ContributionUnit ]

\* The for-loop of compute_weighted_score from position i on: the running
\* total and the contribution list.
RECURSIVE ScoreLoop(_, _, _, _, _, _)
ScoreLoop(results, i, total, contribs, custom, tf) ==
    IF i > Len(results) THEN [total |-> total, contribs |-> contribs]
    ELSE LET c == ContributionOf(results[i], custom, tf)
         IN ScoreLoop(results, i + 1, total + c.contribution, Append(contribs, c), custom, tf)

\* Insert c into a list sorted by |contribution| descending, after its equals
\* (list.sort is stable).
RECURSIVE InsertSorted(_, _)
InsertSorted(sorted, c) ==
    IF sorted = <<>> THEN <<c>>
    ELSE IF Abs(Head(sorted).contribution) >= Abs(c.contribution)
         THEN <<Head(sorted)>> \o InsertSorted(Tail(sorted), c)
         ELSE <<c>> \o sorted

\* contributions.sort(key=lambda x: abs(x['contribution']), reverse=True)
RECURSIVE SortContributions(_, _)
SortContributions(todo, sorted) ==
    IF todo = <<>> THEN sorted
    ELSE SortContributions(Tail(todo), InsertSorted(sorted, Head(todo)))

\* Layer1Scorer.compute_weighted_score
ComputeWeightedScoreOf(results, custom, tf) ==
    LET l == ScoreLoop(results, 1, 0, <<>>, custom, tf)
    IN [total_score |-> l.total, contributions |-> SortContributions(l.contribs, <<>>)]

----------------------------------------------------------------------------
(* Layer 2: rules and conflict resolution                                  *)

\* self.regime_context = {}
EmptyRegime ==
    [ trend |-> Absent, trend_strength |-> Absent, volatility |-> Absent,
      squeeze |-> Absent, filter_applied |-> Absent, conflict |-> Absent,
      funding_confirmation |-> Absent ]

\* {r.name: r for r in feature_results}.get(n): the last result of that name.
RECURSIVE LastNamed(_, _, _)
LastNamed(results, n, i) ==
    IF i = 0 THEN Absent
    ELSE IF results[i].name = n THEN i
    ELSE LastNamed(results, n, i - 1)

HasResult(results, n) == \E i \in 1..Len(results) : results[i].name = n

ResultNamed(results, n) == results[LastNamed(results, n, Len(results))]

\* a < b on floats: false when a is NaN.
Less(a, b) == a # NaN /\ a < b

\* Truth value of a metadata string: every non-empty string is true.
Truthy(v) == v # Absent /\ v # ""

\* Layer2Rules._analyze_regime
AnalyzeRegime(results) ==
    LET trendPart ==
            IF HasResult(results, "ADX") THEN
                LET adx == ResultNamed(results, "ADX").raw_value IN
                IF Less(adx, 18) THEN [trend |-> "RANGING", trend_strength |-> "WEAK"]
                ELSE IF Less(adx, 30) THEN [trend |-> "DEVELOPING", trend_strength |-> "MODERATE"]
                ELSE [trend |-> "TRENDING", trend_strength |-> "STRONG"]
            ELSE [trend |-> "UNKNOWN", trend_strength |-> Absent]
        vol ==
            IF HasResult(results, "ATR") /\ ResultNamed(results, "ATR").percentile # NoPercentile THEN
                LET p == ResultNamed(results, "ATR").percentile IN
                IF p > 80 THEN "HIGH" ELSE IF p < 20 THEN "LOW" ELSE "NORMAL"
            ELSE Absent
        sq ==
            IF HasResult(results, "BBWidth") /\ Truthy(ResultNamed(results, "BBWidth").is_squeeze)
            THEN "True" ELSE Absent
    IN [EmptyRegime EXCEPT !.trend = trendPart.trend,
                           !.trend_strength = trendPart.trend_strength,
                           !.volatility = vol,
                           !.squeeze = sq]

\* A variant whose three rules are one if/elif chain: only the first
\* applicable filter scales the score.
ApplyFiltersFirstOnly(rc, raw) ==
    IF rc.trend = "RANGING"
    THEN [score |-> (raw * 6) \div 10,
          regime |-> [rc EXCEPT !.filter_applied = "ADX_LOW_REDUCED_TREND"]]
    ELSE IF rc.volatility = "HIGH"
    THEN [score |-> (raw * 8) \div 10,
          regime |-> [rc EXCEPT !.filter_applied = "HIGH_VOL_CAUTION"]]
    ELSE IF rc.squeeze # Absent
    THEN [score |-> (raw * 5) \div 10,
          regime |-> [rc EXCEPT !.filter_applied = "BB_SQUEEZE_WAIT"]]
    ELSE [score |-> raw, regime |-> rc]

\* Layer2Rules._apply_filters: the filtered score and the regime context.
ApplyFilters(rc, raw) ==
    LET s1  == IF rc.trend = "RANGING" THEN (raw * 6) \div 10 ELSE raw
        rc1 == IF rc.trend = "RANGING"
               THEN [rc EXCEPT !.filter_applied = "ADX_LOW_REDUCED_TREND"] ELSE rc
        s2  == IF rc.volatility = "HIGH" THEN (s1 * 8) \div 10 ELSE s1
        rc2 == IF rc.volatility = "HIGH"
               THEN [rc1 EXCEPT !.filter_applied = "HIGH_VOL_CAUTION"] ELSE rc1
        s3  == IF rc.squeeze # Absent THEN (s2 * 5) \div 10 ELSE s2
        rc3 == IF rc.squeeze # Absent
               THEN [rc2 EXCEPT !.filter_applied = "BB_SQUEEZE_WAIT"] ELSE rc2
    IN [score |-> s3, regime |-> rc3]

\* sum(c['contribution'] for c in contributions if c['category'] == cat)
RECURSIVE CategoryScore(_, _)
CategoryScore(contribs, cat) ==
    IF contribs = <<>> THEN 0
    ELSE (IF Head(contribs).category = cat THEN Head(contribs).contribution ELSE 0)
         + CategoryScore(Tail(contribs), cat)

\* next((c['contribution'] for c in contributions if c['name'] == 'FundingRate'), None);
\* 0 stands for both None and 0.0, which the "if funding_contrib:" test treats alike.
RECURSIVE FundingContribution(_)
FundingContribution(contribs) ==
    IF contribs = <<>> THEN 0
    ELSE IF Head(contribs).name = "FundingRate" THEN Head(contribs).contribution
    ELSE FundingContribution(Tail(contribs))

\* A variant whose magnitude tests include the value 2.
TechMacroDivergeInclusive(tech, macro) ==
    /\ Abs(tech) >= 2 * ScoreScale
    /\ Abs(macro) >= 2 * ScoreScale
    /\ \/ tech > 0 /\ macro < 0
       \/ tech < 0 /\ macro > 0

\* "if abs(tech_score) > 2 and abs(macro_score) > 2:" and the sign test in it.
TechMacroDiverge(tech, macro) ==
    /\ Abs(tech) > 2 * ScoreScale
    /\ Abs(macro) > 2 * ScoreScale
    /\ \/ tech > 0 /\ macro < 0
       \/ tech < 0 /\ macro > 0

\* A variant without the market-type test around the funding check.
FundingConfirmsAnyMarket(mt, funding, score) ==
    /\ funding # 0
    /\ \/ score > 0 /\ funding < -(ScoreScale \div 2)
       \/ score < 0 /\ funding > ScoreScale \div 2

\* "if self.market_type in ['PERPETUAL', 'FUTURES']:", "if funding_contrib:"
\* and the test of the contribution against the adjusted score.
FundingConfirms(mt, funding, score) ==
    /\ mt \in {"PERPETUAL", "FUTURES"}
    /\ funding # 0
    /\ \/ score > 0 /\ funding < -(ScoreScale \div 2)
       \/ score < 0 /\ funding > ScoreScale \div 2

\* Layer2Rules._resolve_conflicts
ResolveConflicts(rc, score, contribs, mt) ==
    LET tech     == CategoryScore(contribs, "TECHNICAL")
        macro    == CategoryScore(contribs, "MACRO")
        diverge  == TechMacroDiverge(tech, macro)
        s1       == IF diverge THEN (score * 7) \div 10 ELSE score
        rc1      == IF diverge THEN [rc EXCEPT !.conflict = "TECH_MACRO_DIVERGENCE"] ELSE rc
        funding  == FundingContribution(contribs)
        confirm  == FundingConfirms(mt, funding, s1)
        s2       == IF confirm THEN (s1 * 12) \div 10 ELSE s1
        rc2      == IF confirm THEN [rc1 EXCEPT !.funding_confirmation = "True"] ELSE rc1
    IN [score |-> s2, regime |-> rc2]

SignalOfScoreInclusive(score) ==
    IF score >= 4 * ScoreScale THEN "STRONG_BUY"
    ELSE IF score >= 2 * ScoreScale THEN "BUY"
    ELSE IF score >= ScoreScale \div 2 THEN "WEAK_BUY"
    ELSE IF score >= -(ScoreScale \div 2) THEN "NEUTRAL"
    ELSE IF score >= -2 * ScoreScale THEN "WEAK_SELL"
    ELSE IF score >= -4 * ScoreScale THEN "SELL"
    ELSE "STRONG_SELL"

\* The if/elif chain of _score_to_signal.
SignalOfScore(score) ==
    IF score > 4 * ScoreScale THEN "STRONG_BUY"
    ELSE IF score > 2 * ScoreScale THEN "BUY"
    ELSE IF score > ScoreScale \div 2 THEN "WEAK_BUY"
    ELSE IF score > -(ScoreScale \div 2) THEN "NEUTRAL"
    ELSE IF score > -2 * ScoreScale THEN "WEAK_SELL"
    ELSE IF score > -4 * ScoreScale THEN "SELL"
    ELSE "STRONG_SELL"

\* The bias assigned next to each signal in the same chain.
BiasOfSignal(sig) ==
    IF sig \in {"STRONG_BUY", "BUY", "WEAK_BUY"} THEN "BULLISH"
    ELSE IF sig = "NEUTRAL" THEN "NEUTRAL"
    ELSE "BEARISH"

\* A variant that lowers the confidence in every ranging market, also for a
\* NEUTRAL signal.
ScoreToSignalRangingAlways(rc, score) ==
    LET raw == Min(100, (Abs(score) * 10) \div ScoreScale)
        sig == SignalOfScore(score)
        c1  == IF rc.trend = "RANGING" THEN (raw * 7) \div 10 ELSE raw
        c2  == IF rc.conflict # Absent THEN (c1 * 8) \div 10 ELSE c1
    IN [signal |-> sig, bias |-> BiasOfSignal(sig), confidence |-> Max(0, Min(100, c2))]

\* Layer2Rules._score_to_signal
ScoreToSignal(rc, score) ==
    LET raw == Min(100, (Abs(score) * 10) \div ScoreScale)
        sig == SignalOfScore(score)
        c1  == IF rc.trend = "RANGING" /\ sig # "NEUTRAL" THEN (raw * 7) \div 10 ELSE raw
        c2  == IF rc.conflict # Absent THEN (c1 * 8) \div 10 ELSE c1
    IN [signal |-> sig, bias |-> BiasOfSignal(sig), confidence |-> Max(0, Min(100, c2))]

\* Layer2Rules.apply_rules
ApplyRulesOf(results, contribs, mt, raw) ==
    LET rc0 == AnalyzeRegime(results)
        f   == ApplyFilters(rc0, raw)
        a   == ResolveConflicts(f.regime, f.score, contribs, mt)
        s   == ScoreToSignal(a.regime, a.score)
    IN [signal |-> s.signal, bias |-> s.bias, confidence |-> s.confidence,
        regime_context |-> a.regime, adjusted_score |-> a.score]

----------------------------------------------------------------------------
(* Trade parameters                                                        *)

\* Trade levels are in 1/PriceScale price units, so that the mean over
\* atr_periods rows and the x2.5 multipliers stay whole numbers.
PriceScale == AtrPeriods * 100

\* tr: max of high-low, |high - previous close|, |low - previous close|;
\* the first row has no previous close and max(axis=1) skips the NaN.
TrueRange(s, i) ==
    IF i = 1 THEN s[i].high - s[i].low
    ELSE Max(s[i].high - s[i].low,
             Max(Abs(s[i].high - s[i - 1].close), Abs(s[i].low - s[i - 1].close)))

RECURSIVE SumTrueRange(_, _, _)
SumTrueRange(s, from, to) ==
    IF from > to THEN 0 ELSE TrueRange(s, from) + SumTrueRange(s, from + 1, to)

\* tr.rolling(window=atr_periods).mean().iloc[-1], times PriceScale / 100:
\* the sum of the last atr_periods true ranges, NaN on a shorter frame.
AtrTimesPeriods(s) ==
    IF Len(s) < AtrPeriods THEN NaN
    ELSE SumTrueRange(s, Len(s) - AtrPeriods + 1, Len(s))

NoTradeParams ==
    [ present |-> FALSE, nan |-> FALSE, entry_price |-> 0, stop_loss |-> 0,
      take_profit |-> 0, risk_reward |-> 0 ]

\* DecisionEngine._calculate_trade_params; risk_reward in tenths.
CalculateTradeParams(s, sig, conf, rc) ==
    LET current == s[Len(s)].close * PriceScale
        atr     == AtrTimesPeriods(s)
        mult    == IF rc.volatility = "HIGH" THEN 25 ELSE 20
        rr      == IF conf > 80 THEN 30 ELSE IF conf > 60 THEN 25 ELSE 20
        dist    == atr * mult * 10
        reward  == (dist * rr) \div 10
    IN
    IF sig \in BuySignals THEN
        IF atr = NaN
        THEN [present |-> TRUE, nan |-> TRUE, entry_price |-> current, stop_loss |-> NaN,
              take_profit |-> NaN, risk_reward |-> rr]
        ELSE [present |-> TRUE, nan |-> FALSE, entry_price |-> current,
              stop_loss |-> current - dist, take_profit |-> current + reward,
              risk_reward |-> rr]
    ELSE IF sig \in SellSignals THEN
        IF atr = NaN
        THEN [present |-> TRUE, nan |-> TRUE, entry_price |-> current, stop_loss |-> NaN,
              take_profit |-> NaN, risk_reward |-> rr]
        ELSE [present |-> TRUE, nan |-> FALSE, entry_price |-> current,
              stop_loss |-> current + dist, take_profit |-> current - reward,
              risk_reward |-> rr]
    ELSE NoTradeParams

----------------------------------------------------------------------------
(* DecisionEngine.generate_decision, and Layer1Scorer used on its own      *)

\* Longest feature_list a caller passes to calculate_features.
MaxListLen == 3

ListNames == {"RSI", "DXY", "Unknown"}

RECURSIVE SeqsUpTo(_, _)
SeqsUpTo(S, n) ==
    IF n = 0 THEN {<<>>}
    ELSE LET shorter == SeqsUpTo(S, n - 1)
         IN shorter \cup { Append(q, x) : q \in {r \in shorter : Len(r) = n - 1}, x \in S }

FeatureLists == SeqsUpTo(ListNames, MaxListLen)

DeInit ==
    /\ pc = "idle"
    /\ caller = Absent
    /\ market_type = "SPOT"
    /\ timeframe = "1h"
    /\ feature_weights = NoWeights
    /\ df = ShortSeries
    /\ feature_list = <<>>
    /\ feat_i = 1
    /\ feature_results = <<>>
    /\ errors = <<>>
    /\ raw_score = 0
    /\ contributions = <<>>
    /\ regime_context = EmptyRegime
    /\ signal = Absent
    /\ bias = Absent
    /\ confidence = 0
    /\ trade_params = NoTradeParams
    /\ adjusted_score = 0

\* A variant that keeps appending to the list of the evaluation before.
KeptResults(old) == old

\* "results = []" in calculate_features, on a Layer1Scorer that is new.
FreshResults(old) == <<>>

\* A new Layer1Scorer: DecisionEngine.generate_decision runs every registered
\* feature; a caller of calculate_features may pass its own feature_list.
StartEvaluation ==
    /\ pc = "idle"
    /\ \E mt \in MarketTypes, tf \in EngineTimeframes, w \in WeightMaps, s \in PriceSeries,
          c \in {"generate_decision", "calculate_features"} :
        /\ caller' = c
        /\ market_type' = mt
        /\ timeframe' = tf
        /\ feature_weights' = w
        /\ df' = s
        /\ \E fl \in (IF c = "generate_decision" THEN {RegistryList} ELSE FeatureLists) :
            /\ feature_list' = fl
            /\ pc' = IF fl = <<>> THEN "score" ELSE "features"
    /\ feat_i' = 1
    /\ feature_results' = FreshResults(feature_results)
    /\ errors' = <<>>
    /\ raw_score' = 0
    /\ contributions' = <<>>
    /\ regime_context' = EmptyRegime
    /\ signal' = Absent
    /\ bias' = Absent
    /\ confidence' = 0
    /\ trade_params' = NoTradeParams
    /\ adjusted_score' = 0

AfterErrorAbort(i, n) == n + 1

\* "except Exception ...: continue": the loop goes on with the next name.
AfterError(i, n) == i + 1

\* A variant whose except branch stands a neutral result in for the feature.
ResultsAfterErrorNeutral(results, n) ==
    Append(results, FR(n, "TECHNICAL", 0, 0, 0, NoPercentile, Absent))

\* The except branch prints and continues: results is not appended to.
ResultsAfterError(results, n) == results

\* One iteration of the for-loop of calculate_features.
CalculateFeature ==
    /\ pc = "features"
    /\ feat_i <= Len(feature_list)
    /\ LET n == feature_list[feat_i]
           last == Len(feature_list)
       IN
       \/ /\ n \notin Registered
          /\ errors' = Append(errors, feat_i)
          /\ feat_i' = AfterError(feat_i, last)
          /\ feature_results' = ResultsAfterError(feature_results, n)
       \/ /\ n \in Registered
          /\ ~IsApplicable(n, market_type)
          /\ feat_i' = feat_i + 1
          /\ UNCHANGED <<feature_results, errors>>
       \/ /\ n \in Registered
          /\ IsApplicable(n, market_type)
          /\ \E o \in Outcomes(n, df) :
                IF o.raises
                THEN /\ errors' = Append(errors, feat_i)
                     /\ feat_i' = AfterError(feat_i, last)
                     /\ feature_results' = ResultsAfterError(feature_results, n)
                ELSE /\ feature_results' = Append(feature_results, o.result)
                     /\ feat_i' = feat_i + 1
                     /\ UNCHANGED errors
    /\ pc' = IF feat_i' > Len(feature_list) THEN "score" ELSE "features"
    /\ UNCHANGED <<caller, market_type, timeframe, feature_weights, df, feature_list,
                   raw_score, contributions, regime_context, signal, bias, confidence,
                   trade_params, adjusted_score>>

\* layer1.compute_weighted_score(feature_weights)
ComputeWeightedScore ==
    /\ pc = "score"
    /\ LET r == ComputeWeightedScoreOf(feature_results, feature_weights, timeframe)
       IN /\ raw_score' = r.total_score
          /\ contributions' = r.contributions
    /\ pc' = IF caller = "generate_decision" THEN "rules" ELSE "done"
    /\ UNCHANGED <<caller, market_type, timeframe, feature_weights, df, feature_list, feat_i,
                   feature_results, errors, regime_context, signal, bias, confidence,
                   trade_params, adjusted_score>>

\* layer2.apply_rules(raw_score)
ApplyRules ==
    /\ pc = "rules"
    /\ LET r == ApplyRulesOf(feature_results, contributions, market_type, raw_score)
       IN /\ signal' = r.signal
          /\ bias' = r.bias
          /\ confidence' = r.confidence
          /\ regime_context' = r.regime_context
          /\ adjusted_score' = r.adjusted_score
    /\ pc' = "params"
    /\ UNCHANGED <<caller, market_type, timeframe, feature_weights, df, feature_list, feat_i,
                   feature_results, errors, raw_score, contributions, trade_params>>

\* self._calculate_trade_params(current_price, df, signal, confidence, regime_context)
TradeParams ==
    /\ pc = "params"
    /\ trade_params' = CalculateTradeParams(df, signal, confidence, regime_context)
    /\ pc' = "done"
    /\ UNCHANGED <<caller, market_type, timeframe, feature_weights, df, feature_list, feat_i,
                   feature_results, errors, raw_score, contributions, regime_context,
                   signal, bias, confidence, adjusted_score>>

\* The DecisionOutput (or the Layer-1 score) has been returned; the scorer and
\* rules objects of this evaluation are dropped.
Return ==
    /\ pc = "done"
    /\ pc' = "idle"
    /\ caller' = Absent
    /\ market_type' = "SPOT"
    /\ timeframe' = "1h"
    /\ feature_weights' = NoWeights
    /\ df' = ShortSeries
    /\ feature_list' = <<>>
    /\ feat_i' = 1
    /\ feature_results' = <<>>
    /\ errors' = <<>>
    /\ raw_score' = 0
    /\ contributions' = <<>>
    /\ regime_context' = EmptyRegime
    /\ signal' = Absent
    /\ bias' = Absent
    /\ confidence' = 0
    /\ trade_params' = NoTradeParams
    /\ adjusted_score' = 0

----------------------------------------------------------------------------
(* Backtester                                                              *)

Timeframes == {"15m", "1h", "4h", "1d", "1w", "1M"}

DefaultHoldingPeriod == 48

\* holding_periods.get(timeframe.name, 48)
HoldingPeriods(tf) ==
    CASE tf = "15m" -> 24
      [] tf = "1h"  -> 48
      [] tf = "4h"  -> 72
      [] tf = "1d"  -> 30
      [] tf = "1w"  -> 12
      [] OTHER      -> DefaultHoldingPeriod

FetchBuffer == 10

\* limit=candles_to_fetch + 10
FetchLimit(tf) == HoldingPeriods(tf) + FetchBuffer

MinRows == 5

\* Historical decisions handed to _evaluate_decision: a long and a short trade
\* with all three levels set, and one whose stop_loss is missing.
Decisions ==
    { [signal |-> "BUY",  entry_price |-> 100, stop_loss |-> 95,  take_profit |-> 115],
      [signal |-> "SELL", entry_price |-> 100, stop_loss |-> 105, take_profit |-> 85],
      [signal |-> "WEAK_BUY", entry_price |-> 100, stop_loss |-> 0, take_profit |-> 115] }

HighVals == {104, 105, 115, 116}

LowVals == {84, 85, 95, 96}

CloseVals == {98, 102}

\* Rows the provider can return (high >= close >= low).
Bars == { [high |-> h, low |-> l, close |-> c] : h \in HighVals, l \in LowVals, c \in CloseVals }

NoRow == [high |-> 0, low |-> 0, close |-> 0]

NoDecision == [signal |-> None, entry_price |-> 0, stop_loss |-> 0, take_profit |-> 0, timeframe |-> None]

\* Lengths of the frame the provider returns: empty (also stands for a fetch
\* that raises), one row short of the minimum, the minimum, the holding period
\* and the fetch limit.
DfLens(tf) == {0, MinRows - 1, MinRows, HoldingPeriods(tf), FetchLimit(tf)}

IsLong(d) == d.signal \in BuySignals

\* "return None": no TradeOutcome.
NoOutcome ==
    [ signal |-> None, timeframe |-> None, exit_price |-> 0, exit_reason |-> None,
      exit_index |-> -1, max_favorable_excursion |-> 0, max_adverse_excursion |-> 0,
      reward |-> 0, risk |-> 0, was_profitable |-> FALSE, hit_target |-> FALSE,
      hit_stop |-> FALSE ]

NoBreach == [index |-> -1, stop |-> FALSE, target |-> FALSE]

BtInit ==
    /\ bt_pc = "idle"
    /\ decision = NoDecision
    /\ df_len = 0
    /\ scan_i = 0
    /\ row = NoRow
    /\ max_favorable = 0
    /\ max_adverse = 0
    /\ exit_price = 0
    /\ exit_reason = None
    /\ exit_index = -1
    /\ outcome = NoOutcome
    /\ first_breach = NoBreach

\* _evaluate_decision up to the start of the loop: the early return on a
\* missing level, the fetch, and the early return on a failed or short fetch.
EvaluateDecision ==
    /\ bt_pc = "idle"
    /\ \E d \in Decisions, tf \in Timeframes :
        /\ decision' = [signal |-> d.signal, entry_price |-> d.entry_price,
                        stop_loss |-> d.stop_loss, take_profit |-> d.take_profit,
                        timeframe |-> tf]
        /\ IF d.entry_price = 0 \/ d.stop_loss = 0 \/ d.take_profit = 0
           THEN /\ bt_pc' = "done"
                /\ df_len' = 0
                /\ UNCHANGED <<max_favorable, max_adverse>>
           ELSE \E fetched \in DfLens(tf) :
                IF fetched < MinRows
                THEN /\ bt_pc' = "done"
                     /\ df_len' = 0
                     /\ UNCHANGED <<max_favorable, max_adverse>>
                ELSE /\ bt_pc' = "scan"
                     /\ df_len' = fetched
                     /\ max_favorable' = d.entry_price
                     /\ max_adverse' = d.entry_price
    /\ scan_i' = 0
    /\ row' = NoRow
    /\ exit_price' = 0
    /\ exit_reason' = None
    /\ exit_index' = -1
    /\ outcome' = NoOutcome
    /\ first_breach' = NoBreach

\* The TradeOutcome built after the loop.
MakeOutcome(d, xprice, xreason, xindex, mfe, mae) ==
    LET reward == IF IsLong(d) THEN xprice - d.entry_price ELSE d.entry_price - xprice
        risk   == IF IsLong(d) THEN d.entry_price - d.stop_loss ELSE d.stop_loss - d.entry_price
    IN [ signal |-> d.signal, timeframe |-> d.timeframe,
         exit_price |-> xprice, exit_reason |-> xreason, exit_index |-> xindex,
         max_favorable_excursion |-> mfe, max_adverse_excursion |-> mae,
         reward |-> reward, risk |-> risk,
         was_profitable |-> reward > 0,
         hit_target |-> xreason = "TAKE_PROFIT",
         hit_stop |-> xreason = "STOP_LOSS" ]

\* "if low <= stop" (long) / "if high >= stop" (short)
StopHit(d, r) == IF IsLong(d) THEN r.low <= d.stop_loss ELSE r.high >= d.stop_loss

\* "if high >= target" (long) / "if low <= target" (short)
TargetHit(d, r) == IF IsLong(d) THEN r.high >= d.take_profit ELSE r.low <= d.take_profit

NoExit == [reason |-> None, price |-> 0]

CheckRowTargetFirst(d, r) ==
    IF TargetHit(d, r) THEN [reason |-> "TAKE_PROFIT", price |-> d.take_profit]
    ELSE IF StopHit(d, r) THEN [reason |-> "STOP_LOSS", price |-> d.stop_loss]
    ELSE NoExit

\* The two breach tests of one loop iteration, in the order the code makes them.
CheckRow(d, r) ==
    IF StopHit(d, r) THEN [reason |-> "STOP_LOSS", price |-> d.stop_loss]
    ELSE IF TargetHit(d, r) THEN [reason |-> "TAKE_PROFIT", price |-> d.take_profit]
    ELSE NoExit

LeavesLoopOnStopOnly(x) == x.reason = "STOP_LOSS"

\* The "break" that follows each assignment of exit_price / exit_reason.
LeavesLoop(x) == x # NoExit

\* History of the frame: what the stop and target levels say about a row,
\* written from the prices alone.
RowBreach(d, r, i) ==
    [ index  |-> i,
      stop   |-> IF d.signal \in BuySignals THEN r.low <= d.stop_loss ELSE r.high >= d.stop_loss,
      target |-> IF d.signal \in BuySignals THEN r.high >= d.take_profit ELSE r.low <= d.take_profit ]

\* One iteration of "for i, (idx, row) in enumerate(df.iterrows())".
ScanRow ==
    /\ bt_pc = "scan"
    /\ scan_i < df_len
    /\ \E r \in Bars :
        LET d    == decision
            long == IsLong(d)
            x    == CheckRow(d, r)
            b    == RowBreach(d, r, scan_i)
        IN
        /\ row' = r
        /\ max_favorable' = IF long THEN Max(max_favorable, r.high) ELSE Min(max_favorable, r.low)
        /\ max_adverse' = IF long THEN Min(max_adverse, r.low) ELSE Max(max_adverse, r.high)
        /\ scan_i' = scan_i + 1
        /\ first_breach' = IF first_breach = NoBreach /\ (b.stop \/ b.target)
                           THEN b ELSE first_breach
        /\ IF x # NoExit
           THEN /\ exit_price' = x.price
                /\ exit_reason' = x.reason
                /\ exit_index' = scan_i
           ELSE UNCHANGED <<exit_price, exit_reason, exit_index>>
        /\ bt_pc' = IF LeavesLoop(x) THEN "finish" ELSE "scan"
    /\ UNCHANGED <<decision, df_len, outcome>>

\* The code after the loop: the timeout when no exit was set, then the
\* TradeOutcome.
Finish ==
    /\ \/ bt_pc = "finish"
       \/ bt_pc = "scan" /\ scan_i = df_len
    /\ IF exit_reason = None
       THEN /\ exit_price' = row.close
            /\ exit_reason' = "TIMEOUT"
            /\ exit_index' = df_len - 1
       ELSE UNCHANGED <<exit_price, exit_reason, exit_index>>
    /\ outcome' = MakeOutcome(decision, exit_price', exit_reason', exit_index',
                              max_favorable, max_adverse)
    /\ bt_pc' = "done"
    /\ UNCHANGED <<decision, df_len, scan_i, row, max_favorable, max_adverse, first_breach>>

\* backtest_historical_decisions moves on to the next decision; the locals of
\* the finished call are gone.
NextDecision ==
    /\ bt_pc = "done"
    /\ bt_pc' = "idle"
    /\ decision' = NoDecision
    /\ df_len' = 0
    /\ scan_i' = 0
    /\ row' = NoRow
    /\ max_favorable' = 0
    /\ max_adverse' = 0
    /\ exit_price' = 0
    /\ exit_reason' = None
    /\ exit_index' = -1
    /\ outcome' = NoOutcome
    /\ first_breach' = NoBreach

BtNext == EvaluateDecision \/ ScanRow \/ Finish \/ NextDecision

----------------------------------------------------------------------------
(* The confidence stages: Layer 2, consensus adjustment, quality filters   *)

\* Confidence values are in 1/ConfUnit points: adjust_confidence_by_consensus
\* returns a float, and base x 1.15 x 0.9 x 1.10 needs five decimals.
ConfUnit == 100000

\* Longest chain of stages applied to one decision, _score_to_signal included.
MaxStages == 3

\* The feature results of the decisions that are enhanced: one outcome of
\* each of these calculators on a frame with movement, or no result at all.
RECURSIVE ResultLists(_)
ResultLists(names) ==
    IF names = <<>> THEN {<<>>}
    ELSE { <<o.result>> \o rest :
             o \in {x \in Outcomes(Head(names), ZigzagSeries) : ~x.raises},
             rest \in ResultLists(Tail(names)) }

AnalyzedResults == ResultLists(<<"RSI", "ADX", "DXY", "FundingRate">>) \cup {<<>>}

\* top_drivers = contributions[:5]
TopDrivers(contribs) == SubSeq(contribs, 1, Min(5, Len(contribs)))

\* EnhancedAnalyzer._calculate_feature_agreement, as the fraction num / den
\* of 100.
CalculateFeatureAgreement(top_drivers) ==
    LET bullish_count == Cardinality({i \in 1..Len(top_drivers) : top_drivers[i].direction > 0})
        bearish_count == Cardinality({i \in 1..Len(top_drivers) : top_drivers[i].direction < 0})
        total_count   == bullish_count + bearish_count
    IN IF top_drivers = <<>> \/ total_count = 0 THEN [num |-> 50, den |-> 1]
       ELSE [num |-> Max(bullish_count, bearish_count) * 100, den |-> total_count]

\* agreement < pct
AgreementBelow(agreement, pct) == agreement.num < pct * agreement.den

LowAgreementWarning == "Low feature agreement - indicators are conflicting"

\* EnhancedAnalyzer._generate_warnings; anomaly in tenths, raw in score units.
GenerateWarnings(sig, conf, raw, anomaly, agreement) ==
    LET expected == Min(Abs(raw) * 2, 100 * ScoreScale)
        w1 == IF AgreementBelow(agreement, 60) THEN <<LowAgreementWarning>> ELSE <<>>
        w2 == IF anomaly > 5
              THEN <<"Unusual market conditions detected - exercise caution">> ELSE <<>>
        w3 == IF conf < 60 /\ sig \in {"STRONG_BUY", "STRONG_SELL"}
              THEN <<"Strong signal with low confidence - consider waiting for confirmation">>
              ELSE <<>>
        w4 == IF Abs(conf * ScoreScale - expected) > 20 * ScoreScale
              THEN <<"Confidence score may be miscalibrated">> ELSE <<>>
    IN w1 \o w2 \o w3 \o w4

\* quality_score (points) and anomaly_score (tenths) the analyzer computed.
QualityScores == {40, 60}

AnomalyScores == {0, 5, 8}

NoEnhanced ==
    [ present |-> FALSE, signal |-> Absent, bias |-> Absent, confidence |-> 0,
      quality_score |-> 0, feature_agreement |-> [num |-> 50, den |-> 1],
      anomaly_score |-> 0, validation_warnings |-> <<>> ]

\* ConsensusResult: agreement_level, conflicts and cross_category_agreement
\* (agreements / comparisons) are what the adjustment reads.
ConsensusOf(level, conflicts, agreements, comparisons) ==
    [ agreement_level |-> level, conflicts |-> conflicts,
      cross_category_agreement |-> [num |-> agreements, den |-> comparisons] ]

ConflictPairs ==
    << "TECHNICAL vs MACRO", "TECHNICAL vs SENTIMENT", "CRYPTO_DERIVATIVES vs TECHNICAL",
       "ONCHAIN vs TECHNICAL", "SENTIMENT vs TECHNICAL" >>

ConsensusResults ==
    { ConsensusOf("STRONG_CONSENSUS", <<>>, 1, 1),
      ConsensusOf("STRONG_CONSENSUS", <<>>, 1, 2),
      ConsensusOf("MODERATE_CONSENSUS", <<>>, 2, 3),
      ConsensusOf("WEAK_CONSENSUS", SubSeq(ConflictPairs, 1, 1), 1, 3),
      ConsensusOf("NO_CONSENSUS", SubSeq(ConflictPairs, 1, 2), 0, 1),
      ConsensusOf("NO_CONSENSUS", ConflictPairs, 0, 1) }

NoConsensus == ConsensusOf(Absent, <<>>, 1, 1)

ClampConfidenceFromBelow(c) == Max(0, c)

\* "max(0, min(100, adjusted_confidence))"
ClampConfidence(c) == Max(0, Min(100 * ConfUnit, c))

\* A variant whose penalty does not grow with the number of conflicts.
ConflictPenaltyFlat(conflicts) == IF conflicts # <<>> THEN 9 ELSE 10

\* "adjustment_factor *= (1.0 - 0.10 * len(consensus.conflicts))", in tenths,
\* applied only "if consensus.conflicts".
ConflictPenalty(conflicts) == IF conflicts # <<>> THEN 10 - Len(conflicts) ELSE 10

\* ConsensusEngine.adjust_confidence_by_consensus: the three factors in
\* hundredths, tenths and hundredths, applied in the order of the code.
AdjustConfidenceByConsensusOf(base, c) ==
    LET level == IF c.agreement_level = "STRONG_CONSENSUS" THEN 115
                 ELSE IF c.agreement_level = "MODERATE_CONSENSUS" THEN 105
                 ELSE IF c.agreement_level = "WEAK_CONSENSUS" THEN 95
                 ELSE 80
        part1 == IF c.agreement_level = "STRONG_CONSENSUS" THEN "Strong consensus"
                 ELSE IF c.agreement_level = "MODERATE_CONSENSUS" THEN "Moderate consensus"
                 ELSE IF c.agreement_level = "WEAK_CONSENSUS" THEN "Weak consensus"
                 ELSE "No consensus"
        penalty == ConflictPenalty(c.conflicts)
        cross == c.cross_category_agreement
        reward == IF cross.num * 10 >= 8 * cross.den THEN 110
                  ELSE IF cross.num * 10 <= 4 * cross.den THEN 90
                  ELSE 100
        adjusted == (((((base * level) \div 100) * penalty) \div 10) * reward) \div 100
    IN [ adjusted_confidence |-> ClampConfidence(adjusted),
         explanation |->
            <<part1>>
            \o (IF c.conflicts # <<>> THEN <<"conflict(s) detected">> ELSE <<>>)
            \o (IF reward = 110 THEN <<"High cross-category agreement">>
                ELSE IF reward = 90 THEN <<"Low cross-category agreement">> ELSE <<>>) ]

ContainsLowFeatureAgreement(warnings) ==
    \E i \in 1..Len(warnings) : warnings[i] = LowAgreementWarning

\* enhanced_analysis.apply_quality_filters: "modified" is the decision object
\* itself, so rule 3 subtracts from what rule 2 left.
ApplyQualityFiltersOf(d) ==
    LET r1 == IF d.quality_score < 50 /\ d.signal = "STRONG_BUY"
              THEN [d EXCEPT !.signal = "BUY",
                             !.validation_warnings =
                                 Append(@, "Signal downgraded from STRONG_BUY to BUY due to low quality score")]
              ELSE IF d.quality_score < 50 /\ d.signal = "STRONG_SELL"
              THEN [d EXCEPT !.signal = "SELL",
                             !.validation_warnings =
                                 Append(@, "Signal downgraded from STRONG_SELL to SELL due to low quality score")]
              ELSE d
        r2 == IF r1.anomaly_score > 7
              THEN [r1 EXCEPT !.confidence = Max(@ - 15 * ConfUnit, 0),
                              !.validation_warnings =
                                  Append(@, "Confidence reduced by 15% due to high anomaly score")]
              ELSE r1
        r3 == IF AgreementBelow(r2.feature_agreement, 55)
              THEN [r2 EXCEPT !.confidence = Max(@ - 10 * ConfUnit, 0),
                              !.validation_warnings =
                                  IF ~ContainsLowFeatureAgreement(@)
                                  THEN Append(@, "Confidence reduced by 10% due to low feature agreement")
                                  ELSE @]
              ELSE r2
    IN r3

CfInit ==
    /\ enhanced = NoEnhanced
    /\ stages = <<>>
    /\ consensus = NoConsensus
    /\ base_confidence = 0
    /\ consensus_explanation = <<>>
    /\ filtered_from = NoEnhanced

\* DecisionEngine.generate_decision followed by
\* EnhancedAnalyzer.analyze_with_quality_checks: the confidence is the one
\* Layer2Rules._score_to_signal returned.
AnalyzeWithQualityChecks ==
    /\ ~enhanced.present
    /\ \E results \in AnalyzedResults, w \in WeightMaps, tf \in EngineTimeframes,
          mt \in MarketTypes, q \in QualityScores, a \in AnomalyScores :
          LET l1  == ComputeWeightedScoreOf(results, w, tf)
              std == ApplyRulesOf(results, l1.contributions, mt, l1.total_score)
              agreement == CalculateFeatureAgreement(TopDrivers(l1.contributions))
          IN enhanced' =
                [ present |-> TRUE, signal |-> std.signal, bias |-> std.bias,
                  confidence |-> std.confidence * ConfUnit,
                  quality_score |-> q, feature_agreement |-> agreement,
                  anomaly_score |-> a,
                  validation_warnings |->
                      GenerateWarnings(std.signal, std.confidence, l1.total_score, a, agreement) ]
    /\ stages' = <<"_score_to_signal">>
    /\ UNCHANGED <<consensus, base_confidence, consensus_explanation, filtered_from>>

\* adjusted, explanation = adjust_confidence_by_consensus(decision.confidence,
\* consensus); the caller stores the adjusted value in the decision.
AdjustConfidenceByConsensus ==
    /\ enhanced.present
    /\ Len(stages) < MaxStages
    /\ \E c \in ConsensusResults :
          LET r == AdjustConfidenceByConsensusOf(enhanced.confidence, c)
          IN /\ consensus' = c
             /\ base_confidence' = enhanced.confidence
             /\ enhanced' = [enhanced EXCEPT !.confidence = r.adjusted_confidence]
             /\ consensus_explanation' = r.explanation
    /\ stages' = Append(stages, "adjust_confidence_by_consensus")
    /\ filtered_from' = NoEnhanced

\* decision = apply_quality_filters(decision)
ApplyQualityFilters ==
    /\ enhanced.present
    /\ Len(stages) < MaxStages
    /\ enhanced' = ApplyQualityFiltersOf(enhanced)
    /\ filtered_from' = enhanced
    /\ stages' = Append(stages, "apply_quality_filters")
    /\ UNCHANGED <<consensus, base_confidence, consensus_explanation>>

\* The decision has been stored or shown; the next one starts afresh.
DropDecision ==
    /\ enhanced.present
    /\ enhanced' = NoEnhanced
    /\ stages' = <<>>
    /\ consensus' = NoConsensus
    /\ base_confidence' = 0
    /\ consensus_explanation' = <<>>
    /\ filtered_from' = NoEnhanced

----------------------------------------------------------------------------
(* ConsensusEngine (src/oracle/engine/consensus_engine.py)                 *)

\* Votes cast per direction within one category, beyond which the input
\* lists are not enumerated.
MaxVotes == 3

\* A feature result as the consensus engine reads it: category and direction.
Vote(cat, d) == [category |-> cat, direction |-> d]

RECURSIVE Repeat(_, _)
Repeat(x, n) == IF n = 0 THEN <<>> ELSE <<x>> \o Repeat(x, n - 1)

\* The results of one category: bull, bear and neutral votes.
Block(cat, bull, bear, neutral) ==
    Repeat(Vote(cat, 1), bull) \o Repeat(Vote(cat, -1), bear) \o Repeat(Vote(cat, 0), neutral)

\* The lists calculate_consensus is called with: technical and macro results
\* in many mixes, up to two sentiment results, and a result of a category
\* (VOLATILITY) that self.categories does not list.
VoteLists ==
    { Block("TECHNICAL", t[1], t[2], t[3]) \o Block("VOLATILITY", v, 0, 0)
        \o Block("MACRO", m[1], m[2], m[3]) \o Block("SENTIMENT", s[1], s[2], 0) :
        t \in (0..MaxVotes) \X (0..MaxVotes) \X (0..1),
        m \in (0..MaxVotes) \X (0..MaxVotes) \X (0..MaxVotes),
        s \in (0..1) \X (0..1),
        v \in 0..1 }

\* self.categories
Categories ==
    {"TECHNICAL", "MACRO", "CRYPTO_DERIVATIVES", "INTERMARKET", "SENTIMENT", "ONCHAIN"}

\* CategoryVotes()
NoVotes == [bull |-> 0, bear |-> 0, neutral |-> 0]

\* CategoryVotes.total
VotesTotal(v) == v.bull + v.bear + v.neutral

\* CategoryVotes.direction
VotesDirection(v) ==
    IF v.bull > v.bear /\ v.bull > v.neutral THEN "BULLISH"
    ELSE IF v.bear > v.bull /\ v.bear > v.neutral THEN "BEARISH"
    ELSE "NEUTRAL"

\* A fraction num / den, den > 0.
Frac(n, d) == [num |-> n, den |-> d]

\* CategoryVotes.strength: max_votes / total, 0.0 without votes.
VotesStrength(v) ==
    IF VotesTotal(v) = 0 THEN Frac(0, 1)
    ELSE Frac(Max(v.bull, Max(v.bear, v.neutral)), VotesTotal(v))

\* A variant that drops the result of a category self.categories does not list.
CastVoteKnownOnly(votes, result) ==
    IF result.category \notin DOMAIN votes THEN votes
    ELSE [votes EXCEPT ![result.category] =
            IF result.direction > 0 THEN [@ EXCEPT !.bull = @ + 1]
            ELSE IF result.direction < 0 THEN [@ EXCEPT !.bear = @ + 1]
            ELSE [@ EXCEPT !.neutral = @ + 1]]

\* One iteration of "for result in feature_results": the category is added
\* if votes does not have it, and the direction is counted.
CastVote(votes, result) ==
    LET known == [c \in DOMAIN votes \cup {result.category} |->
                    IF c \in DOMAIN votes THEN votes[c] ELSE NoVotes]
    IN [known EXCEPT ![result.category] =
            IF result.direction > 0 THEN [@ EXCEPT !.bull = @ + 1]
            ELSE IF result.direction < 0 THEN [@ EXCEPT !.bear = @ + 1]
            ELSE [@ EXCEPT !.neutral = @ + 1]]

RECURSIVE CountVotes(_, _)
CountVotes(votes, results) ==
    IF results = <<>> THEN votes
    ELSE CountVotes(CastVote(votes, Head(results)), Tail(results))

\* sum(v.bull for v in votes.values()) and its two siblings
RECURSIVE SumVotes(_, _, _)
SumVotes(votes, cats, field) ==
    IF cats = {} THEN 0
    ELSE LET c == CHOOSE x \in cats : TRUE
         IN votes[c][field] + SumVotes(votes, cats \ {c}, field)

StrongConsensus == 75
ModerateConsensus == 60
WeakConsensus == 50

\* ConsensusEngine._classify_consensus, pct a fraction, the thresholds in
\* hundredths.
ClassifyConsensus(pct) ==
    IF pct.num * 100 >= StrongConsensus * pct.den THEN "STRONG_CONSENSUS"
    ELSE IF pct.num * 100 >= ModerateConsensus * pct.den THEN "MODERATE_CONSENSUS"
    ELSE IF pct.num * 100 >= WeakConsensus * pct.den THEN "WEAK_CONSENSUS"
    ELSE "NO_CONSENSUS"

\* conflict_pairs, in the order of the list
ConflictPairList ==
    << <<"TECHNICAL", "MACRO">>, <<"TECHNICAL", "SENTIMENT">>,
       <<"CRYPTO_DERIVATIVES", "TECHNICAL">>, <<"ONCHAIN", "TECHNICAL">>,
       <<"SENTIMENT", "TECHNICAL">> >>

\* A variant that reports the conflict when either category is decided.
SignificantConflictEither(strength1, strength2) ==
    \/ strength1.num * 10 >= 6 * strength1.den
    \/ strength2.num * 10 >= 6 * strength2.den

\* "if strength1 >= 0.6 and strength2 >= 0.6"
SignificantConflict(strength1, strength2) ==
    /\ strength1.num * 10 >= 6 * strength1.den
    /\ strength2.num * 10 >= 6 * strength2.den

\* The message a conflict is reported with names the two categories, their
\* directions and their strengths.
Conflict(cat1, dir1, strength1, cat2, dir2, strength2) ==
    [ cat1 |-> cat1, dir1 |-> dir1, strength1 |-> strength1,
      cat2 |-> cat2, dir2 |-> dir2, strength2 |-> strength2 ]

\* ConsensusEngine._detect_conflicts: the loop over conflict_pairs from pair i.
RECURSIVE DetectConflictsFrom(_, _)
DetectConflictsFrom(votes, i) ==
    IF i > Len(ConflictPairList) THEN <<>>
    ELSE
      LET cat1 == ConflictPairList[i][1]
          cat2 == ConflictPairList[i][2]
          directions == {c \in DOMAIN votes : VotesTotal(votes[c]) > 0}
          rest == DetectConflictsFrom(votes, i + 1)
      IN IF cat1 \in directions /\ cat2 \in directions
         THEN LET dir1 == VotesDirection(votes[cat1])
                  dir2 == VotesDirection(votes[cat2])
              IN IF /\ \/ (dir1 = "BULLISH" /\ dir2 = "BEARISH")
                       \/ (dir1 = "BEARISH" /\ dir2 = "BULLISH")
                    /\ SignificantConflict(VotesStrength(votes[cat1]), VotesStrength(votes[cat2]))
                 THEN << Conflict(cat1, dir1, VotesStrength(votes[cat1]),
                                  cat2, dir2, VotesStrength(votes[cat2])) >> \o rest
                 ELSE rest
         ELSE rest

DetectConflicts(votes) == DetectConflictsFrom(votes, 1)

\* ConsensusEngine._calculate_cross_category_agreement: agreements / comparisons
\* over the pairs of categories with votes, 1.0 with fewer than two of them.
CrossCategoryAgreement(votes) ==
    LET active == {c \in DOMAIN votes : VotesTotal(votes[c]) > 0}
        pairs  == {p \in SUBSET active : Cardinality(p) = 2}
        agree  == {p \in pairs :
                     \A a \in p, b \in p : VotesDirection(votes[a]) = VotesDirection(votes[b])}
    IN IF Cardinality(active) < 2 THEN Frac(1, 1)
       ELSE Frac(Cardinality(agree), Cardinality(pairs))

\* ConsensusEngine.calculate_consensus.  consensus_percentage is the
\* fraction times 100, kept as a fraction.
CalculateConsensusOf(results) ==
    LET votes == CountVotes([c \in Categories |-> NoVotes], results)
        total_bull == SumVotes(votes, DOMAIN votes, "bull")
        total_bear == SumVotes(votes, DOMAIN votes, "bear")
        total_neutral == SumVotes(votes, DOMAIN votes, "neutral")
        total_features == Len(results)
        consensus_pct ==
            IF total_features > 0
            THEN Frac(Max(total_bull, Max(total_bear, total_neutral)), total_features)
            ELSE Frac(0, 1)
    IN [ consensus_percentage |-> Frac(consensus_pct.num * 100, consensus_pct.den),
         category_votes |-> votes,
         agreement_level |-> ClassifyConsensus(consensus_pct),
         conflicts |-> DetectConflicts(votes),
         total_features |-> total_features,
         bull_count |-> total_bull,
         bear_count |-> total_bear,
         neutral_count |-> total_neutral,
         cross_category_agreement |-> CrossCategoryAgreement(votes) ]

\* The default of min_consensus_pct and the fewest features a signal fires on.
DefaultMinConsensusPct == 60
MinFeatures == 5

\* The thresholds callers pass.
MinConsensusPcts == {50, DefaultMinConsensusPct, 75}

\* A variant that also rejects a consensus equal to the threshold.
ShouldFireSignalStrict(c, min_consensus_pct, allow_conflicts) ==
    IF c.consensus_percentage.num <= min_consensus_pct * c.consensus_percentage.den
    THEN [fire |-> FALSE, reason |-> "below threshold"]
    ELSE IF ~allow_conflicts /\ c.conflicts # <<>>
    THEN [fire |-> FALSE, reason |-> "Conflicts detected"]
    ELSE IF c.total_features < MinFeatures
    THEN [fire |-> FALSE, reason |-> "Insufficient features"]
    ELSE [fire |-> TRUE, reason |-> "Consensus criteria met"]

\* ConsensusEngine.should_fire_signal: (should_fire, reason)
ShouldFireSignalOf(c, min_consensus_pct, allow_conflicts) ==
    IF c.consensus_percentage.num < min_consensus_pct * c.consensus_percentage.den
    THEN [fire |-> FALSE, reason |-> "below threshold"]
    ELSE IF ~allow_conflicts /\ c.conflicts # <<>>
    THEN [fire |-> FALSE, reason |-> "Conflicts detected"]
    ELSE IF c.total_features < MinFeatures
    THEN [fire |-> FALSE, reason |-> "Insufficient features"]
    ELSE [fire |-> TRUE, reason |-> "Consensus criteria met"]

NoVoteResult == [consensus_percentage |-> Frac(0, 1), category_votes |-> <<>>,
                 agreement_level |-> Absent, conflicts |-> <<>>, total_features |-> 0,
                 bull_count |-> 0, bear_count |-> 0, neutral_count |-> 0,
                 cross_category_agreement |-> Frac(1, 1)]

NoGate == [fire |-> FALSE, reason |-> Absent]

CsInit ==
    /\ cs_pc = "idle"
    /\ cs_results = <<>>
    /\ cs_consensus = NoVoteResult
    /\ cs_min_pct = DefaultMinConsensusPct
    /\ cs_allow_conflicts = FALSE
    /\ cs_gate = NoGate

\* consensus = engine.calculate_consensus(feature_results)
CalculateConsensus ==
    /\ cs_pc = "idle"
    /\ \E results \in VoteLists :
          /\ cs_results' = results
          /\ cs_consensus' = CalculateConsensusOf(results)
    /\ cs_pc' = "calculated"
    /\ UNCHANGED <<cs_min_pct, cs_allow_conflicts, cs_gate>>

\* should_fire, reason = engine.should_fire_signal(consensus, min_consensus_pct, allow_conflicts)
ShouldFireSignal ==
    /\ cs_pc = "calculated"
    /\ \E p \in MinConsensusPcts, allow \in BOOLEAN :
          /\ cs_min_pct' = p
          /\ cs_allow_conflicts' = allow
          /\ cs_gate' = ShouldFireSignalOf(cs_consensus, p, allow)
    /\ cs_pc' = "gated"
    /\ UNCHANGED <<cs_results, cs_consensus>>

\* The caller is done with the consensus; the next list is analysed afresh.
DropConsensus ==
    /\ cs_pc \in {"calculated", "gated"}
    /\ cs_pc' = "idle"
    /\ cs_results' = <<>>
    /\ cs_consensus' = NoVoteResult
    /\ cs_min_pct' = DefaultMinConsensusPct
    /\ cs_allow_conflicts' = FALSE
    /\ cs_gate' = NoGate

----------------------------------------------------------------------------
(* The same evaluation run twice                                           *)

\* What an evaluation is called with, what its calculators did, and what it
\* returned.
RunRecord ==
    [ caller |-> caller, market_type |-> market_type, timeframe |-> timeframe,
      feature_weights |-> feature_weights, df |-> df, feature_list |-> feature_list,
      errors |-> errors, feature_results |-> feature_results,
      raw_score |-> raw_score, contributions |-> contributions,
      regime_context |-> regime_context, signal |-> signal, bias |-> bias,
      confidence |-> confidence, trade_params |-> trade_params ]

NoRun ==
    [ caller |-> Absent, market_type |-> "SPOT", timeframe |-> "1h",
      feature_weights |-> NoWeights, df |-> ShortSeries, feature_list |-> <<>>,
      errors |-> <<>>, feature_results |-> <<>>,
      raw_score |-> 0, contributions |-> <<>>,
      regime_context |-> EmptyRegime, signal |-> Absent, bias |-> Absent,
      confidence |-> 0, trade_params |-> NoTradeParams ]

RrInit == prev_run = NoRun

\* The first call of generate_decision, on an engine for the hourly timeframe.
FirstRun ==
    /\ prev_run = NoRun
    /\ StartEvaluation
    /\ caller' = "generate_decision"
    /\ timeframe' = "1h"
    /\ UNCHANGED prev_run

\* The first call has returned.  Its objects are garbage but not yet
\* collected: nothing is cleared.
ReturnFirst ==
    /\ pc = "done"
    /\ prev_run = NoRun
    /\ prev_run' = RunRecord
    /\ pc' = "idle"
    /\ UNCHANGED <<caller, market_type, timeframe, feature_weights, df, feature_list, feat_i,
                   feature_results, errors, raw_score, contributions, regime_context,
                   signal, bias, confidence, trade_params, adjusted_score>>

\* The second call, with the arguments of the first.
SecondRun ==
    /\ prev_run # NoRun
    /\ StartEvaluation
    /\ caller' = prev_run.caller
    /\ market_type' = prev_run.market_type
    /\ timeframe' = prev_run.timeframe
    /\ feature_weights' = prev_run.feature_weights
    /\ df' = prev_run.df
    /\ feature_list' = prev_run.feature_list
    /\ UNCHANGED prev_run

\* The position in the first call's results of the result of list position i.
ResultIndex(run, i) ==
    Cardinality({j \in 1..i :
        /\ \A e \in DOMAIN run.errors : run.errors[e] # j
        /\ run.feature_list[j] \in Registered
        /\ IsApplicable(run.feature_list[j], run.market_type)})

\* A calculator is a function of df and context: called again on the same
\* frame and context it raises if it raised, and returns what it returned.
CalculateFeatureAsBefore ==
    /\ CalculateFeature
    /\ prev_run # NoRun =>
          IF \E e \in DOMAIN prev_run.errors : prev_run.errors[e] = feat_i
          THEN errors' = Append(errors, feat_i)
          ELSE /\ errors' = errors
               /\ Len(feature_results') > Len(feature_results) =>
                     feature_results'[Len(feature_results')] =
                         prev_run.feature_results[ResultIndex(prev_run, feat_i)]
    /\ UNCHANGED prev_run

\* The second call has returned and the caller has compared the two outputs.
ReturnSecond ==
    /\ prev_run # NoRun
    /\ Return
    /\ prev_run' = NoRun

----------------------------------------------------------------------------
(* Backtester._calculate_metrics                                           *)

\* Longest batch of outcomes the metrics are calculated on.
MaxResults == 3

\* pnl_percent of an outcome, in whole percent.
PnlPercents == {-2, 0, 3, 7}

\* confidence and signal of the decisions that were evaluated.
DecisionTags ==
    { [confidence |-> 0, signal |-> "WEAK_SELL"], [confidence |-> 50, signal |-> "WEAK_BUY"],
      [confidence |-> 69, signal |-> "BUY"], [confidence |-> 85, signal |-> "SELL"],
      [confidence |-> 100, signal |-> "STRONG_BUY"] }

\* TradeOutcome: "signal=decision.signal", "confidence=decision.confidence",
\* "was_profitable=pnl_percent > 0"
TradeOutcomeOf(pnl, d) ==
    [ signal |-> d.signal, confidence |-> d.confidence,
      pnl_percent |-> pnl, was_profitable |-> pnl > 0 ]

\* A Python bool used as a number: True == 1, False == 0.
PyBool(b) == IF b THEN 1 ELSE 0

\* len(df[df['was_profitable']])
RECURSIVE CountProfitable(_)
CountProfitable(rs) ==
    IF rs = <<>> THEN 0
    ELSE PyBool(Head(rs).was_profitable) + CountProfitable(Tail(rs))

\* df[df['pnl_percent'] > 0]['pnl_percent'].sum()
RECURSIVE GrossProfit(_)
GrossProfit(rs) ==
    IF rs = <<>> THEN 0
    ELSE (IF Head(rs).pnl_percent > 0 THEN Head(rs).pnl_percent ELSE 0) + GrossProfit(Tail(rs))

\* abs(df[df['pnl_percent'] < 0]['pnl_percent'].sum())
RECURSIVE GrossLoss(_)
GrossLoss(rs) ==
    IF rs = <<>> THEN 0
    ELSE (IF Head(rs).pnl_percent < 0 THEN -Head(rs).pnl_percent ELSE 0) + GrossLoss(Tail(rs))

\* A variant whose counter is not restarted when the outcome changes sides.
RECURSIVE StreakLoopNoRestart(_, _, _, _, _)
StreakLoopNoRestart(rs, i, profitable, current_streak, consecutive) ==
    IF i > Len(rs)
    THEN [profitable |-> profitable, consecutive |-> consecutive]
    ELSE LET flag == rs[i].was_profitable
             streak == IF flag THEN current_streak + 1 ELSE current_streak - 1
         IN StreakLoopNoRestart(rs, i + 1, PyBool(flag), streak, Append(consecutive, streak))

\* "for profitable in df['was_profitable']": the loop variable is the name
\* that held the count, so after the loop profitable is the flag of the last
\* row.  The loop also builds the streaks.
RECURSIVE StreakLoop(_, _, _, _, _)
StreakLoop(rs, i, profitable, current_streak, consecutive) ==
    IF i > Len(rs)
    THEN [profitable |-> profitable, consecutive |-> consecutive]
    ELSE LET flag == rs[i].was_profitable
             streak == IF flag THEN Max(1, current_streak + 1)
                       ELSE Min(-1, current_streak - 1)
         IN StreakLoop(rs, i + 1, PyBool(flag), streak, Append(consecutive, streak))

RECURSIVE MaxOf(_, _)
MaxOf(q, default) ==
    IF q = <<>> THEN default ELSE Max(Head(q), MaxOf(Tail(q), Head(q)))

\* profit_factor: gross_profit / gross_loss, float('inf') without losses.
ProfitFactor(gross_profit, gross_loss) ==
    IF gross_loss > 0
    THEN [inf |-> FALSE, num |-> gross_profit, den |-> gross_loss]
    ELSE [inf |-> TRUE, num |-> 1, den |-> 1]

\* confidence_bins: (low, high, label)
ConfidenceBins ==
    << [low |-> 0, high |-> 50, label |-> "0-50%"],
       [low |-> 50, high |-> 70, label |-> "50-70%"],
       [low |-> 70, high |-> 85, label |-> "70-85%"],
       [low |-> 85, high |-> 100, label |-> "85-100%"] >>

\* len(df[(df['confidence'] >= low) & (df['confidence'] < high)])
BinCount(rs, bin) ==
    Cardinality({ k \in DOMAIN rs : rs[k].confidence >= bin.low /\ rs[k].confidence < bin.high })

\* metrics_by_confidence: label -> count, for the bins whose subset is not
\* empty.
MetricsByConfidence(rs) ==
    LET filled == { i \in DOMAIN ConfidenceBins : BinCount(rs, ConfidenceBins[i]) > 0 }
    IN [ label \in { ConfidenceBins[i].label : i \in filled } |->
           LET i == CHOOSE j \in filled : ConfidenceBins[j].label = label
           IN BinCount(rs, ConfidenceBins[i]) ]

\* metrics_by_signal: signal -> count, over df['signal'].unique()
MetricsBySignal(rs) ==
    [ s \in { rs[k].signal : k \in DOMAIN rs } |->
        Cardinality({ k \in DOMAIN rs : rs[k].signal = s }) ]

NoSegments == [s \in {} |-> 0]

\* Backtester._empty_metrics
EmptyMetrics ==
    [ total_trades |-> 0, profitable_trades |-> 0, losing_trades |-> 0,
      win_rate |-> [num |-> 0, den |-> 1],
      profit_factor |-> [inf |-> FALSE, num |-> 0, den |-> 1],
      max_consecutive_wins |-> 0, max_consecutive_losses |-> 0,
      metrics_by_confidence |-> NoSegments, metrics_by_signal |-> NoSegments ]

\* Backtester._calculate_metrics: the counts, the win rate, the profit factor
\* and the streaks.
CalculateMetricsOf(rs) ==
    IF rs = <<>> THEN EmptyMetrics
    ELSE
      LET total == Len(rs)
          profitable == CountProfitable(rs)
          losing == total - profitable
          win_rate == [num |-> profitable * 100, den |-> total]
          profit_factor == ProfitFactor(GrossProfit(rs), GrossLoss(rs))
          loop == StreakLoop(rs, 1, profitable, 0, <<>>)
          wins == SelectSeq(loop.consecutive, LAMBDA x : x > 0)
          losses == SelectSeq(loop.consecutive, LAMBDA x : x < 0)
      IN [ total_trades |-> total,
           profitable_trades |-> loop.profitable,
           losing_trades |-> losing,
           win_rate |-> win_rate,
           profit_factor |-> profit_factor,
           max_consecutive_wins |-> MaxOf(wins, 0),
           max_consecutive_losses |-> MaxOf([k \in DOMAIN losses |-> -losses[k]], 0),
           metrics_by_confidence |-> MetricsByConfidence(rs),
           metrics_by_signal |-> MetricsBySignal(rs) ]

BkInit ==
    /\ bk_pc = "collect"
    /\ bk_results = <<>>
    /\ bk_metrics = EmptyMetrics

\* "self.results.append(outcome)" in run_backtest
AppendOutcome ==
    /\ bk_pc = "collect"
    /\ Len(bk_results) < MaxResults
    /\ \E pnl \in PnlPercents, d \in DecisionTags :
          bk_results' = Append(bk_results, TradeOutcomeOf(pnl, d))
    /\ UNCHANGED <<bk_pc, bk_metrics>>

\* "return self._calculate_metrics()"
CalculateMetrics ==
    /\ bk_pc = "collect"
    /\ bk_metrics' = CalculateMetricsOf(bk_results)
    /\ bk_pc' = "reported"
    /\ UNCHANGED bk_results

\* "self.results = []" at the start of the next run_backtest
ClearResults ==
    /\ bk_pc = "reported"
    /\ bk_pc' = "collect"
    /\ bk_results' = <<>>
    /\ bk_metrics' = EmptyMetrics

----------------------------------------------------------------------------
(* Layer2Rules called on its own                                           *)

\* Layer2Rules(symbol, market_type, timeframe, feature_results, contributions)
\* reads three results: ADX.raw_value, ATR.metadata['percentile'] and
\* BBWidth.metadata['is_squeeze'].
AdxResults ==
    { <<>> } \cup
    { <<FR("ADX", "TECHNICAL", v, 0, 0, NoPercentile, Absent)>> : v \in {NaN, 17, 18, 29, 30} }

AtrResults ==
    { <<>> } \cup
    { <<FR("ATR", "VOLATILITY", 4, 0, 300, p, Absent)>> : p \in {NoPercentile, 10, 80, 90} }

BBWidthResults ==
    { <<>>,
      <<FR("BBWidth", "VOLATILITY", 1, 0, 700, NoPercentile, "YES")>>,
      <<FR("BBWidth", "VOLATILITY", 2, 0, 200, NoPercentile, "NO")>> }

RuleResultLists ==
    { a \o t \o b : a \in AdxResults, t \in AtrResults, b \in BBWidthResults }

\* One entry of Layer1Scorer.contributions with contribution c.
ContributionEntry(n, cat, c) ==
    [ name |-> n, category |-> cat, direction |-> IF c < 0 THEN -1 ELSE IF c > 0 THEN 1 ELSE 0,
      strength |-> One, weight |-> Abs(c) \div (One * ContributionUnit), contribution |-> c ]

\* The TECHNICAL entries (RSI and, in some lists, ADX) and the MACRO entry.
CategoryEntries ==
    { <<ContributionEntry("RSI", "TECHNICAL", t), ContributionEntry("DXY", "MACRO", m)>> \o a :
        t \in {-3 * ScoreScale, 2 * ScoreScale},
        m \in {-3 * ScoreScale, -2 * ScoreScale, 3 * ScoreScale},
        a \in { <<>>, <<ContributionEntry("ADX", "TECHNICAL", ScoreScale \div 2)>> } }

FundingEntries ==
    { <<>> } \cup
    { <<ContributionEntry("FundingRate", "CRYPTO_DERIVATIVES", f)>> :
        f \in {0, -600000, -500000, 600000} }

RuleContributionLists == { c \o f : c \in CategoryEntries, f \in FundingEntries }

RuleMarketTypes == {"SPOT", "PERPETUAL", "FUTURES"}

\* Raw scores of Layer 1, in millionths.
RuleRawScores == {-5100000, -900000, 0, 600000, 2600000, 12100000}

NoOutput == [signal |-> Absent, bias |-> Absent, confidence |-> 0]

RlInit ==
    /\ rl_pc = "idle"
    /\ rl_results = <<>>
    /\ rl_contributions = <<>>
    /\ rl_market_type = "SPOT"
    /\ rl_raw_score = 0
    /\ rl_regime = EmptyRegime
    /\ rl_filtered = 0
    /\ rl_adjusted = 0
    /\ rl_output = NoOutput

\* Layer2Rules.__init__ followed by the call apply_rules(raw_score).
NewLayer2Rules ==
    /\ rl_pc = "idle"
    /\ \E rs \in RuleResultLists, cs \in RuleContributionLists,
          mt \in RuleMarketTypes, raw \in RuleRawScores :
        /\ rl_results' = rs
        /\ rl_contributions' = cs
        /\ rl_market_type' = mt
        /\ rl_raw_score' = raw
    /\ rl_regime' = EmptyRegime
    /\ rl_pc' = "regime"
    /\ UNCHANGED <<rl_filtered, rl_adjusted, rl_output>>

\* "self._analyze_regime()"
RulesAnalyzeRegime ==
    /\ rl_pc = "regime"
    /\ rl_regime' = AnalyzeRegime(rl_results)
    /\ rl_pc' = "filters"
    /\ UNCHANGED <<rl_results, rl_contributions, rl_market_type, rl_raw_score,
                   rl_filtered, rl_adjusted, rl_output>>

\* "filtered_score = self._apply_filters(raw_score)"
RulesApplyFilters ==
    /\ rl_pc = "filters"
    /\ LET f == ApplyFilters(rl_regime, rl_raw_score)
       IN /\ rl_filtered' = f.score
          /\ rl_regime' = f.regime
    /\ rl_pc' = "conflicts"
    /\ UNCHANGED <<rl_results, rl_contributions, rl_market_type, rl_raw_score,
                   rl_adjusted, rl_output>>

\* "adjusted_score = self._resolve_conflicts(filtered_score)"
RulesResolveConflicts ==
    /\ rl_pc = "conflicts"
    /\ LET a == ResolveConflicts(rl_regime, rl_filtered, rl_contributions, rl_market_type)
       IN /\ rl_adjusted' = a.score
          /\ rl_regime' = a.regime
    /\ rl_pc' = "signal"
    /\ UNCHANGED <<rl_results, rl_contributions, rl_market_type, rl_raw_score,
                   rl_filtered, rl_output>>

\* "signal, bias, confidence = self._score_to_signal(adjusted_score)" and the
\* return of apply_rules.
RulesScoreToSignal ==
    /\ rl_pc = "signal"
    /\ rl_output' = ScoreToSignal(rl_regime, rl_adjusted)
    /\ rl_pc' = "returned"
    /\ UNCHANGED <<rl_results, rl_contributions, rl_market_type, rl_raw_score,
                   rl_regime, rl_filtered, rl_adjusted>>

\* The Layer2Rules object goes out of scope.
DropLayer2Rules ==
    /\ rl_pc = "returned"
    /\ rl_pc' = "idle"
    /\ rl_results' = <<>>
    /\ rl_contributions' = <<>>
    /\ rl_market_type' = "SPOT"
    /\ rl_raw_score' = 0
    /\ rl_regime' = EmptyRegime
    /\ rl_filtered' = 0
    /\ rl_adjusted' = 0
    /\ rl_output' = NoOutput

----------------------------------------------------------------------------
(* EnhancedAnalyzer: the quality score of a decision                       *)

\* Quality points are in 1/QualityUnit of a point, so that the five weighted
\* parts of the score are whole numbers.
QualityUnit == 600

\* A variant that takes the trend value TRENDING of the rules engine for a
\* trend in the direction of the bias.
CheckRegimeAlignmentTrending(output) ==
    LET regime == output.regime_context
        s1 == IF regime.trend # Absent /\ regime.trend = "TRENDING"
                 /\ output.bias \in {"BULLISH", "BEARISH"}
              THEN 75 ELSE 50
        s2 == IF regime.volatility # Absent /\ regime.volatility = "HIGH"
                 /\ output.signal \in {"STRONG_BUY", "STRONG_SELL"}
              THEN s1 - 10 ELSE s1
    IN Max(0, Min(s2, 100))

\* EnhancedAnalyzer._check_regime_alignment, in points.  regime_context has a
\* key when the rules engine has written it.
CheckRegimeAlignment(output) ==
    LET regime == output.regime_context
        trend == regime.trend
        s1 == IF trend = Absent THEN 50
              ELSE IF output.bias = "BULLISH" /\ trend \in {"UPTREND", "STRONG_UPTREND"}
                   THEN 75
              ELSE IF output.bias = "BEARISH" /\ trend \in {"DOWNTREND", "STRONG_DOWNTREND"}
                   THEN 75
              ELSE IF output.bias = "BULLISH" /\ trend \in {"DOWNTREND", "STRONG_DOWNTREND"}
                   THEN 35
              ELSE IF output.bias = "BEARISH" /\ trend \in {"UPTREND", "STRONG_UPTREND"}
                   THEN 35
              ELSE 50
        s2 == IF regime.volatility # Absent /\ regime.volatility = "HIGH"
                 /\ output.signal \in {"STRONG_BUY", "STRONG_SELL"}
              THEN s1 - 10 ELSE s1
    IN Max(0, Min(s2, 100))

\* The frame and the context the analyzer is given: len(df), the share of
\* missing cells in percent, and whether context['macro'] and
\* context['derivatives'] hold data.
AnalyzedData ==
    { [rows |-> r, missing_pct |-> p, macro |-> m, derivatives |-> d] :
        r \in {50, 100}, p \in {0, 5}, m \in BOOLEAN, d \in BOOLEAN }

\* EnhancedAnalyzer._assess_data_quality, in points.
AssessDataQuality(data, mt) ==
    LET s1 == IF data.rows < 100 THEN 80 ELSE 100
        s2 == s1 - data.missing_pct * 2
        s3 == IF data.macro THEN s2 ELSE s2 - 10
        s4 == IF data.derivatives THEN s3
              ELSE IF mt \in {"PERPETUAL", "FUTURES"} THEN s3 - 10 ELSE s3
    IN Max(0, s4)

\* The DecisionOutput fields the analyzer reads.
DecisionOutputOf(results, contribs, mt, raw) ==
    LET r == ApplyRulesOf(results, contribs, mt, raw)
    IN [ market_type |-> mt, signal |-> r.signal, bias |-> r.bias,
         confidence |-> r.confidence, raw_score |-> raw,
         regime_context |-> r.regime_context,
         top_drivers |-> TopDrivers(SortContributions(contribs, <<>>)) ]

NoDecisionOutput ==
    [ market_type |-> "SPOT", signal |-> Absent, bias |-> Absent, confidence |-> 0,
      raw_score |-> 0, regime_context |-> EmptyRegime, top_drivers |-> <<>> ]

NoData == [rows |-> 0, missing_pct |-> 0, macro |-> FALSE, derivatives |-> FALSE]

\* EnhancedAnalyzer._calculate_quality_score, in 1/QualityUnit points:
\* agreement x 0.3, confidence x 0.2, regime score x 0.2, data quality x 0.15
\* and min(|raw_score| / 50, 1) x 15, capped at 100.
CalculateQualityScore(output, data) ==
    LET agreement == CalculateFeatureAgreement(output.top_drivers)
        p1 == (agreement.num * 3 * (QualityUnit \div 10)) \div agreement.den
        p2 == output.confidence * (QualityUnit \div 5)
        p3 == CheckRegimeAlignment(output) * (QualityUnit \div 5)
        p4 == AssessDataQuality(data, output.market_type) * ((QualityUnit * 3) \div 20)
        p5 == Min(((Abs(output.raw_score) \div 100000) * 3 * QualityUnit) \div 100,
                  15 * QualityUnit)
    IN Min(p1 + p2 + p3 + p4 + p5, 100 * QualityUnit)

QaInit ==
    /\ qa_pc = "idle"
    /\ qa_output = NoDecisionOutput
    /\ qa_data = NoData
    /\ qa_regime_score = 0
    /\ qa_quality = 0

\* The contribution lists of the decisions that are analyzed.
AnalyzedContributionLists == { c \in CategoryEntries : Len(c) = 2 }

\* generate_decision has returned the DecisionOutput that is to be analyzed.
GenerateDecisionOutput ==
    /\ qa_pc = "idle"
    /\ \E rs \in RuleResultLists, cs \in AnalyzedContributionLists, raw \in RuleRawScores,
          mt \in {"SPOT", "PERPETUAL"} :
        qa_output' = DecisionOutputOf(rs, cs, mt, raw)
    /\ qa_pc' = "decided"
    /\ UNCHANGED <<qa_data, qa_regime_score, qa_quality>>

\* "quality_score = self._calculate_quality_score(standard_output, df, context)"
AnalyzeQuality ==
    /\ qa_pc = "decided"
    /\ \E data \in AnalyzedData :
        /\ qa_data' = data
        /\ qa_regime_score' = CheckRegimeAlignment(qa_output)
        /\ qa_quality' = CalculateQualityScore(qa_output, data)
    /\ qa_pc' = "analyzed"
    /\ UNCHANGED qa_output

\* The analyzer is done with this decision.
DropAnalysis ==
    /\ qa_pc = "analyzed"
    /\ qa_pc' = "idle"
    /\ qa_output' = NoDecisionOutput
    /\ qa_data' = NoData
    /\ qa_regime_score' = 0
    /\ qa_quality' = 0

----------------------------------------------------------------------------
(* Specifications                                                          *)

\* The decision engine.
Init == DeInit /\ BtInit /\ FxInit /\ CfInit /\ CsInit /\ RrInit /\ BkInit /\ RlInit /\ QaInit

Next ==
    \/ StartEvaluation /\ UNCHANGED <<btVars, fxVars, cfVars, csVars, rrVars, bkVars, rlVars, qaVars>>
    \/ CalculateFeature /\ UNCHANGED <<btVars, fxVars, cfVars, csVars, rrVars, bkVars, rlVars, qaVars>>
    \/ ComputeWeightedScore /\ UNCHANGED <<btVars, fxVars, cfVars, csVars, rrVars, bkVars, rlVars, qaVars>>
    \/ ApplyRules /\ UNCHANGED <<btVars, fxVars, cfVars, csVars, rrVars, bkVars, rlVars, qaVars>>
    \/ TradeParams /\ UNCHANGED <<btVars, fxVars, cfVars, csVars, rrVars, bkVars, rlVars, qaVars>>
    \/ Return /\ UNCHANGED <<btVars, fxVars, cfVars, csVars, rrVars, bkVars, rlVars, qaVars>>

Spec == Init /\ [][Next]_vars

\* The backtester.
BacktestNext == BtNext /\ UNCHANGED <<deVars, fxVars, cfVars, csVars, rrVars, bkVars, rlVars, qaVars>>

SpecBacktest == Init /\ [][BacktestNext]_vars

\* The feature calculators called on their own.
SpecFeaturesNext ==
    \/ Calculate /\ UNCHANGED <<btVars, deVars, cfVars, csVars, rrVars, bkVars, rlVars, qaVars>>
    \/ ConstructFeatureResult /\ UNCHANGED <<btVars, deVars, cfVars, csVars, rrVars, bkVars, rlVars, qaVars>>
    \/ AdxTrendStrength /\ UNCHANGED <<btVars, deVars, cfVars, csVars, rrVars, bkVars, rlVars, qaVars>>
    \/ DropResult /\ UNCHANGED <<btVars, deVars, cfVars, csVars, rrVars, bkVars, rlVars, qaVars>>

SpecFeatures == Init /\ [][SpecFeaturesNext]_vars

\* The confidence stages applied to enhanced decisions.
SpecConfidenceNext ==
    \/ AnalyzeWithQualityChecks /\ UNCHANGED <<btVars, deVars, fxVars, csVars, rrVars, bkVars, rlVars, qaVars>>
    \/ AdjustConfidenceByConsensus /\ UNCHANGED <<btVars, deVars, fxVars, csVars, rrVars, bkVars, rlVars, qaVars>>
    \/ ApplyQualityFilters /\ UNCHANGED <<btVars, deVars, fxVars, csVars, rrVars, bkVars, rlVars, qaVars>>
    \/ DropDecision /\ UNCHANGED <<btVars, deVars, fxVars, csVars, rrVars, bkVars, rlVars, qaVars>>

SpecConfidence == Init /\ [][SpecConfidenceNext]_vars

\* The consensus engine called on lists of feature results.
SpecConsensusNext ==
    \/ CalculateConsensus /\ UNCHANGED <<btVars, deVars, fxVars, cfVars, rrVars, bkVars, rlVars, qaVars>>
    \/ ShouldFireSignal /\ UNCHANGED <<btVars, deVars, fxVars, cfVars, rrVars, bkVars, rlVars, qaVars>>
    \/ DropConsensus /\ UNCHANGED <<btVars, deVars, fxVars, cfVars, rrVars, bkVars, rlVars, qaVars>>

SpecConsensus == Init /\ [][SpecConsensusNext]_vars

\* One engine asked twice for the same evaluation.
SpecRerunNext ==
    \/ FirstRun /\ UNCHANGED <<btVars, fxVars, cfVars, csVars, bkVars, rlVars, qaVars>>
    \/ CalculateFeatureAsBefore /\ UNCHANGED <<btVars, fxVars, cfVars, csVars, bkVars, rlVars, qaVars>>
    \/ ComputeWeightedScore /\ UNCHANGED <<btVars, fxVars, cfVars, csVars, rrVars, bkVars, rlVars, qaVars>>
    \/ ApplyRules /\ UNCHANGED <<btVars, fxVars, cfVars, csVars, rrVars, bkVars, rlVars, qaVars>>
    \/ TradeParams /\ UNCHANGED <<btVars, fxVars, cfVars, csVars, rrVars, bkVars, rlVars, qaVars>>
    \/ ReturnFirst /\ UNCHANGED <<btVars, fxVars, cfVars, csVars, bkVars, rlVars, qaVars>>
    \/ SecondRun /\ UNCHANGED <<btVars, fxVars, cfVars, csVars, bkVars, rlVars, qaVars>>
    \/ ReturnSecond /\ UNCHANGED <<btVars, fxVars, cfVars, csVars, bkVars, rlVars, qaVars>>

SpecRerun == Init /\ [][SpecRerunNext]_vars

\* The metrics of a batch of outcomes.
SpecMetricsNext ==
    \/ AppendOutcome /\ UNCHANGED <<btVars, deVars, fxVars, cfVars, csVars, rrVars, rlVars, qaVars>>
    \/ CalculateMetrics /\ UNCHANGED <<btVars, deVars, fxVars, cfVars, csVars, rrVars, rlVars, qaVars>>
    \/ ClearResults /\ UNCHANGED <<btVars, deVars, fxVars, cfVars, csVars, rrVars, rlVars, qaVars>>

SpecMetrics == Init /\ [][SpecMetricsNext]_vars

\* The rules engine called on its own.
SpecRulesNext ==
    \/ NewLayer2Rules /\ UNCHANGED <<btVars, deVars, fxVars, cfVars, csVars, rrVars, bkVars, qaVars>>
    \/ RulesAnalyzeRegime /\ UNCHANGED <<btVars, deVars, fxVars, cfVars, csVars, rrVars, bkVars, qaVars>>
    \/ RulesApplyFilters /\ UNCHANGED <<btVars, deVars, fxVars, cfVars, csVars, rrVars, bkVars, qaVars>>
    \/ RulesResolveConflicts /\ UNCHANGED <<btVars, deVars, fxVars, cfVars, csVars, rrVars, bkVars, qaVars>>
    \/ RulesScoreToSignal /\ UNCHANGED <<btVars, deVars, fxVars, cfVars, csVars, rrVars, bkVars, qaVars>>
    \/ DropLayer2Rules /\ UNCHANGED <<btVars, deVars, fxVars, cfVars, csVars, rrVars, bkVars, qaVars>>

SpecRules == Init /\ [][SpecRulesNext]_vars

\* The quality score of decisions.
SpecQualityNext ==
    \/ GenerateDecisionOutput /\ UNCHANGED <<btVars, deVars, fxVars, cfVars, csVars, rrVars, bkVars, rlVars>>
    \/ AnalyzeQuality /\ UNCHANGED <<btVars, deVars, fxVars, cfVars, csVars, rrVars, bkVars, rlVars>>
    \/ DropAnalysis /\ UNCHANGED <<btVars, deVars, fxVars, cfVars, csVars, rrVars, bkVars, rlVars>>

SpecQuality == Init /\ [][SpecQualityNext]_vars

----------------------------------------------------------------------------
(* Claims about the Layer-1 scorer                                         *)

RECURSIVE SumSeq(_)
SumSeq(q) == IF q = <<>> THEN 0 ELSE Head(q) + SumSeq(Tail(q))

\* compute_weighted_score has returned.
Scored == pc \in {"rules", "params", "done"}

\* The weight the claim resolves for a feature: the caller's override when
\* there is one, else the preset of the timeframe, else 1.0.
ResolvedWeight(n) ==
    IF n \in DOMAIN feature_weights THEN feature_weights[n]
    ELSE DefaultTimeframeWeights(timeframe, n)

WeightedTerms ==
    [ i \in 1..Len(feature_results) |->
        ResolvedWeight(feature_results[i].name) * feature_results[i].direction
            * feature_results[i].strength * ContributionUnit ]

SameFeature(a, b) ==
    a.name = b.name /\ a.direction = b.direction /\ a.strength = b.strength

\* C1: the raw score is the sum of weight x direction x strength over all
\* computed features, with the resolved weight of each, and every computed
\* feature has exactly one entry in the contribution list.
C1_RawScoreIsWeightedSum ==
    Scored =>
        /\ raw_score = SumSeq(WeightedTerms)
        /\ Len(contributions) = Len(feature_results)
        /\ \A i \in 1..Len(feature_results) :
              Cardinality({ j \in 1..Len(contributions) :
                              SameFeature(contributions[j], feature_results[i]) })
                = Cardinality({ k \in 1..Len(feature_results) :
                              SameFeature(feature_results[k], feature_results[i]) })
        /\ \A j \in 1..Len(contributions) :
              contributions[j].contribution =
                  ResolvedWeight(contributions[j].name) * contributions[j].direction
                      * contributions[j].strength * ContributionUnit

C1_Witness ==
    /\ Scored
    /\ raw_score # 0
    /\ \E i, j, k \in 1..Len(feature_results) :
          /\ feature_results[i].name \in DOMAIN feature_weights
          /\ feature_weights[feature_results[i].name] # DefaultTimeframeWeights(timeframe, feature_results[i].name)
          /\ feature_results[i].direction # 0
          /\ feature_results[j].name \notin DOMAIN feature_weights
          /\ feature_results[j].direction # 0
          /\ feature_results[k].direction = 0

\* calculate_features has returned.
FeaturesCalculated == pc \in {"score", "rules", "params", "done"}

InErrors(i) == \E e \in 1..Len(errors) : errors[e] = i

\* The names of feature_list from position i on whose calculation did not fail.
RECURSIVE Survivors(_)
Survivors(i) ==
    IF i > Len(feature_list) THEN <<>>
    ELSE IF InErrors(i) THEN Survivors(i + 1)
    ELSE <<feature_list[i]>> \o Survivors(i + 1)

ResultNames == [i \in 1..Len(feature_results) |-> feature_results[i].name]

\* C5: a failing calculator or registry lookup is skipped and the rest of the
\* list is still calculated: the results are exactly the features of the list
\* that did not fail, in list order.
C5_FailureSkipsOnlyThatFeature ==
    FeaturesCalculated =>
        /\ ResultNames = Survivors(1)
        /\ Len(feature_results) + Len(errors) = Len(feature_list)

C5_Witness ==
    /\ FeaturesCalculated
    /\ errors # <<>>
    /\ \E e \in 1..Len(errors) :
          /\ errors[e] < Len(feature_list)
          /\ ~InErrors(errors[e] + 1)
    /\ \E e \in 1..Len(errors) : feature_list[errors[e]] \notin Registered
    /\ \E e \in 1..Len(errors) : feature_list[errors[e]] \in Registered

----------------------------------------------------------------------------
(* Claims about FeatureResult and the calculators                          *)

\* The constructor call had a direction outside -1, 0, 1 or a strength
\* outside 0..1.
InvalidCall ==
    \/ fx_call.direction \notin {-1, 0, 1}
    \/ fx_call.strength = NaN
    \/ fx_call.strength < 0
    \/ fx_call.strength > One

\* C4: every FeatureResult that exists has direction in {-1, 0, 1} and
\* 0 <= strength <= 1, and a constructor call with any other direction or
\* strength raises and leaves no object.
C4_FeatureResultValidated ==
    /\ fx_result.exists =>
          /\ fx_result.object.direction \in {-1, 0, 1}
          /\ fx_result.object.strength # NaN
          /\ 0 <= fx_result.object.strength
          /\ fx_result.object.strength <= One
    /\ (fx_pc = "done" /\ ~fx_call.raises /\ InvalidCall) =>
          /\ fx_result.raised
          /\ ~fx_result.exists
    /\ (fx_pc = "done" /\ ~fx_call.raises /\ ~InvalidCall) =>
          /\ fx_result.exists
          /\ fx_result.object.direction = fx_call.direction
          /\ fx_result.object.strength = fx_call.strength

C4_Witness ==
    /\ fx_pc = "done"
    /\ fx_call.direction = 1
    /\ fx_call.strength = One + 1
    /\ fx_result.raised
    /\ ~fx_result.exists

\* The context bundles a calculator reads.
DependsOn(n) ==
    CASE n \in {"VIX"}                    -> {"macro"}
      [] n \in {"GoldSilverRatio"}        -> {"intermarket"}
      [] n \in {"FundingRate", "Basis"}   -> {"derivatives"}
      [] n \in {"NewsSentiment"}          -> {"sentiment"}
      [] n \in {"MarketFearGauge"}        -> {"macro", "sentiment"}
      [] OTHER                            -> {}

BundleAbsent(ctx, b) ==
    CASE b = "macro"       -> ~ctx.macro.present
      [] b = "intermarket" -> ~ctx.intermarket.present
      [] b = "derivatives" -> ~ctx.derivatives.present
      [] b = "sentiment"   -> ~ctx.sentiment.present

\* C6 (as claimed): a calculator called with a context that lacks every
\* bundle it reads does not raise and returns direction 0, strength 0 and an
\* explanation.
C6_AbsentBundleIsNeutral ==
    (/\ fx_pc = "done"
     /\ fx_feature \in Calculators
     /\ \A b \in DependsOn(fx_feature) : BundleAbsent(context, b))
        => /\ ~fx_result.raised
           /\ fx_result.exists
           /\ fx_result.object.direction = 0
           /\ fx_result.object.strength = 0
           /\ fx_result.object.explanation # ""

----------------------------------------------------------------------------
(* Claims about the Layer-2 rules and the trade parameters                 *)

Decided == pc \in {"params", "done"} /\ caller = "generate_decision"

SignalRank(sig) ==
    CASE sig = "STRONG_SELL" -> 1 [] sig = "SELL" -> 2 [] sig = "WEAK_SELL" -> 3
      [] sig = "NEUTRAL" -> 4 [] sig = "WEAK_BUY" -> 5 [] sig = "BUY" -> 6
      [] sig = "STRONG_BUY" -> 7

\* Scores at and next to every threshold.
ProbeScores ==
    { t + d : t \in {-4000000, -2000000, -500000, 500000, 2000000, 4000000},
              d \in {-1, 0, 1} }

C7_TradeParamsOnCorrectSides ==
    (pc = "done" /\ caller = "generate_decision") =>
        /\ signal = "NEUTRAL" => ~trade_params.present
        /\ (signal # "NEUTRAL" /\ Len(df) >= AtrPeriods) =>
              /\ trade_params.present
              /\ trade_params.entry_price = df[Len(df)].close * PriceScale
              /\ bias = "BULLISH" =>
                    /\ trade_params.stop_loss < trade_params.entry_price
                    /\ trade_params.entry_price < trade_params.take_profit
              /\ bias = "BEARISH" =>
                    /\ trade_params.take_profit < trade_params.entry_price
                    /\ trade_params.entry_price < trade_params.stop_loss

----------------------------------------------------------------------------
(* Claims about the confidence stages                                      *)

\* C3: the confidence lies in [0, 100] after _score_to_signal, after
\* adjust_confidence_by_consensus and after apply_quality_filters, whatever
\* the order in which the last two are applied.
C3_ConfidenceWithinBounds ==
    enhanced.present =>
        /\ 0 <= enhanced.confidence
        /\ enhanced.confidence <= 100 * ConfUnit

\* The consensus stage was handed 100 and a factor above 1, and afterwards
\* the quality filters took off both deductions.
C3_Witness ==
    /\ enhanced.present
    /\ stages = <<"_score_to_signal", "adjust_confidence_by_consensus", "apply_quality_filters">>
    /\ base_confidence = 100 * ConfUnit
    /\ consensus.agreement_level = "STRONG_CONSENSUS"
    /\ consensus.conflicts = <<>>
    /\ enhanced.confidence = 75 * ConfUnit

----------------------------------------------------------------------------
(* Claims about the backtest exit simulation                               *)

Evaluated == bt_pc = "done" /\ outcome # NoOutcome

\* C8: when the first row that breaches anything breaches both the stop and
\* the target, the trade is recorded as STOP_LOSS at the stop level.
C8_StopPriority ==
    (Evaluated /\ first_breach.stop /\ first_breach.target)
        => /\ outcome.exit_reason = "STOP_LOSS"
           /\ outcome.exit_price = decision.stop_loss
           /\ ~outcome.hit_target

C8_Witness ==
    /\ Evaluated
    /\ first_breach.stop /\ first_breach.target
    /\ first_breach.index > 0
    /\ outcome.exit_reason = "STOP_LOSS"

\* C9: the first breaching row decides.  A row that reaches the target while
\* no row up to it reached the stop gives TAKE_PROFIT at the target, at that
\* row, and nothing read afterwards changes the exit.
C9_FirstBreachDecides ==
    (exit_reason # None /\ first_breach.target /\ ~first_breach.stop)
        => /\ exit_reason = "TAKE_PROFIT"
           /\ exit_price = decision.take_profit
           /\ exit_index = first_breach.index

C9_Witness ==
    /\ Evaluated
    /\ decision.signal \in BuySignals
    /\ decision.entry_price = 100 /\ decision.stop_loss = 95 /\ decision.take_profit = 115
    /\ row.high = 116
    /\ first_breach.target /\ ~first_breach.stop /\ first_breach.index > 0
    /\ outcome.exit_reason = "TAKE_PROFIT" /\ outcome.exit_price = 115

\* C10 (as claimed): the walk covers exactly the holding period N(T) of the
\* timeframe: a stop or target exit happens within the first N(T) rows, and a
\* timeout is taken at the close of row N(T) at the latest.
C10_WindowIsHoldingPeriod ==
    Evaluated => outcome.exit_index < HoldingPeriods(decision.timeframe)

----------------------------------------------------------------------------
(* Claims about the consensus engine                                       *)

\* The number of results of the analysed list, in the given categories, whose
\* direction has the given sign.
Counted(cats, sign) ==
    Cardinality({i \in DOMAIN cs_results :
                   /\ cs_results[i].category \in cats
                   /\ (IF cs_results[i].direction > 0 THEN 1
                       ELSE IF cs_results[i].direction < 0 THEN -1 ELSE 0) = sign})

AllCategories == {cs_results[i].category : i \in DOMAIN cs_results}

MaxCounted(cats) == Max(Counted(cats, 1), Max(Counted(cats, -1), Counted(cats, 0)))

\* C11: for a non-empty list the consensus percentage is 100 times
\* max(bull, bear, neutral) / total over all the features of the list, and the
\* fraction lies between 1/3 and 1; for the empty list it is 0.
C11_ConsensusIsMajorityShare ==
    cs_pc # "idle" =>
        LET pct == cs_consensus.consensus_percentage
            total == Len(cs_results)
        IN IF total > 0
           THEN /\ pct.num * total = 100 * MaxCounted(AllCategories) * pct.den
                /\ 3 * pct.num >= 100 * pct.den
                /\ pct.num <= 100 * pct.den
           ELSE pct.num = 0

\* A list with a result of an unlisted category and a split vote was analysed.
C11_Witness ==
    /\ cs_pc = "calculated"
    /\ "VOLATILITY" \in AllCategories
    /\ Counted(AllCategories, 1) = 3
    /\ Counted(AllCategories, -1) = 2
    /\ Counted(AllCategories, 0) = 2

\* The direction most results of a category point in, as counted in the list.
Dominant(cat) ==
    IF Counted({cat}, 1) > Counted({cat}, -1) /\ Counted({cat}, 1) > Counted({cat}, 0)
    THEN "BULLISH"
    ELSE IF Counted({cat}, -1) > Counted({cat}, 1) /\ Counted({cat}, -1) > Counted({cat}, 0)
    THEN "BEARISH"
    ELSE "NEUTRAL"

VotesIn(cat) == Counted({cat}, 1) + Counted({cat}, -1) + Counted({cat}, 0)

\* Both categories have a vote, their dominant directions are opposed, and in
\* each at least 0.6 of the votes are the majority's.
ConflictConditions(cat1, cat2) ==
    /\ VotesIn(cat1) >= 1
    /\ VotesIn(cat2) >= 1
    /\ {Dominant(cat1), Dominant(cat2)} = {"BULLISH", "BEARISH"}
    /\ 10 * MaxCounted({cat1}) >= 6 * VotesIn(cat1)
    /\ 10 * MaxCounted({cat2}) >= 6 * VotesIn(cat2)

\* C12: every reported conflict is between the two categories of a predefined
\* pair that both have at least one vote, whose dominant directions are opposed
\* and whose internal agreement is at least 0.6 each; for a pair that fails one
\* of the conditions no conflict is reported.
C12_ConflictsNeedOpposedDecidedCategories ==
    cs_pc # "idle" =>
        LET conflicts == cs_consensus.conflicts
        IN /\ \A i \in DOMAIN conflicts :
                /\ \E k \in DOMAIN ConflictPairList :
                      ConflictPairList[k] = <<conflicts[i].cat1, conflicts[i].cat2>>
                /\ ConflictConditions(conflicts[i].cat1, conflicts[i].cat2)
                /\ conflicts[i].dir1 = Dominant(conflicts[i].cat1)
                /\ conflicts[i].dir2 = Dominant(conflicts[i].cat2)
           /\ \A k \in DOMAIN ConflictPairList :
                ~ConflictConditions(ConflictPairList[k][1], ConflictPairList[k][2]) =>
                    \A i \in DOMAIN conflicts :
                        <<conflicts[i].cat1, conflicts[i].cat2>> # ConflictPairList[k]

\* Technical and macro results point opposite ways, the macro majority being
\* exactly 0.6 of its votes, and the conflict is reported.
C12_Witness ==
    /\ cs_pc = "calculated"
    /\ ConflictConditions("TECHNICAL", "MACRO")
    /\ {Dominant("TECHNICAL"), Dominant("MACRO")} = {"BULLISH", "BEARISH"}
    /\ \E i \in DOMAIN cs_consensus.conflicts :
          cs_consensus.conflicts[i].cat1 = "TECHNICAL" /\ cs_consensus.conflicts[i].cat2 = "MACRO"
    /\ VotesIn("TECHNICAL") = 3
    /\ VotesIn("MACRO") = 5
    /\ MaxCounted({"MACRO"}) = 3

\* The three conditions of the gate, read from the analysed list and the
\* arguments of the call.
MeetsThreshold ==
    100 * MaxCounted(AllCategories) >= cs_min_pct * Len(cs_results) /\ Len(cs_results) > 0

ConflictsAcceptable == cs_allow_conflicts \/ cs_consensus.conflicts = <<>>

EnoughFeatures == Len(cs_results) >= MinFeatures

\* C13: should_fire_signal returns True exactly when the consensus percentage
\* reaches the caller's threshold, conflicts are allowed or absent, and at least
\* five features voted; a rejection names the first failing check in the order
\* threshold, conflicts, feature count.
C13_ShouldFireGate ==
    cs_pc = "gated" =>
        /\ cs_gate.fire <=> (MeetsThreshold /\ ConflictsAcceptable /\ EnoughFeatures)
        /\ cs_gate.reason =
              IF ~MeetsThreshold THEN "below threshold"
              ELSE IF ~ConflictsAcceptable THEN "Conflicts detected"
              ELSE IF ~EnoughFeatures THEN "Insufficient features"
              ELSE "Consensus criteria met"

\* A signal fired on a consensus of exactly the default threshold, 3 of 5.
C13_Witness ==
    /\ cs_pc = "gated"
    /\ cs_gate.fire
    /\ cs_min_pct = DefaultMinConsensusPct
    /\ Len(cs_results) = 5
    /\ MaxCounted(AllCategories) = 3

\* A gate that failed all three checks reported the threshold.
C13_WitnessPrecedence ==
    /\ cs_pc = "gated"
    /\ ~MeetsThreshold /\ ~ConflictsAcceptable /\ ~EnoughFeatures
    /\ cs_gate.reason = "below threshold"

----------------------------------------------------------------------------
(* Claims about the consensus adjustment of the confidence                 *)

\* The factors of the claim, in hundredths, tenths and hundredths.
TierFactor == [STRONG_CONSENSUS |-> 115, MODERATE_CONSENSUS |-> 105,
               WEAK_CONSENSUS |-> 95, NO_CONSENSUS |-> 80]

CrossFactor(agreement) ==
    IF 10 * agreement.num >= 8 * agreement.den THEN 110
    ELSE IF 10 * agreement.num <= 4 * agreement.den THEN 90
    ELSE 100

AdjustedLast ==
    /\ enhanced.present
    /\ stages # <<>>
    /\ stages[Len(stages)] = "adjust_confidence_by_consensus"

\* C14: the confidence adjust_confidence_by_consensus returns is the base
\* confidence times the tier factor, times (1 - 0.10 x number of conflicts),
\* times the cross-category factor, clamped to [0, 100].  Stated for a base of
\* whole points, where the product has five decimals.
C14_AdjustmentIsProductOfFactors ==
    (AdjustedLast /\ base_confidence % ConfUnit = 0) =>
        LET product == (base_confidence \div ConfUnit)
                         * TierFactor[consensus.agreement_level]
                         * (10 - Len(consensus.conflicts))
                         * CrossFactor(consensus.cross_category_agreement)
        IN enhanced.confidence =
              (IF product < 0 THEN 0
               ELSE IF product > 100 * ConfUnit THEN 100 * ConfUnit ELSE product)

\* A confidence was cut by two conflicts and a low cross-category agreement
\* without reaching either end of the range.
C14_Witness ==
    /\ AdjustedLast
    /\ base_confidence % ConfUnit = 0
    /\ base_confidence > 0
    /\ Len(consensus.conflicts) = 2
    /\ CrossFactor(consensus.cross_category_agreement) = 90
    /\ enhanced.confidence = (base_confidence \div ConfUnit) * 80 * 8 * 90

----------------------------------------------------------------------------
(* Claims about the quality filters                                        *)

FilteredLast ==
    /\ enhanced.present
    /\ stages # <<>>
    /\ stages[Len(stages)] = "apply_quality_filters"

\* The filters that fire on the decision the call received.
DowngradeFires ==
    filtered_from.quality_score < 50 /\ filtered_from.signal \in {"STRONG_BUY", "STRONG_SELL"}

AnomalyFires == filtered_from.anomaly_score > 7

AgreementFires == AgreementBelow(filtered_from.feature_agreement, 55)

\* The warnings the call appended to the decision's list.
AppendedWarnings ==
    SubSeq(enhanced.validation_warnings,
           Len(filtered_from.validation_warnings) + 1, Len(enhanced.validation_warnings))

WarningsOf(filter) ==
    IF filter = "downgrade"
    THEN {"Signal downgraded from STRONG_BUY to BUY due to low quality score",
          "Signal downgraded from STRONG_SELL to SELL due to low quality score"}
    ELSE IF filter = "anomaly"
    THEN {"Confidence reduced by 15% due to high anomaly score"}
    ELSE {"Confidence reduced by 10% due to low feature agreement"}

TimesRecorded(filter) ==
    Cardinality({i \in DOMAIN AppendedWarnings : AppendedWarnings[i] \in WarningsOf(filter)})

\* C15: one call of apply_quality_filters applies each filter at most once (a
\* strong signal of low quality is downgraded one step, a high anomaly score
\* costs 15 points, a low feature agreement 10 points, the confidence never
\* going below 0), and the call appends one warning for each filter that
\* fired and none for a filter that did not.
C15_EveryFiringFilterIsRecorded ==
    FilteredLast =>
        /\ enhanced.signal =
              (IF DowngradeFires
               THEN (IF filtered_from.signal = "STRONG_BUY" THEN "BUY" ELSE "SELL")
               ELSE filtered_from.signal)
        /\ enhanced.confidence =
              Max(0, filtered_from.confidence
                       - (IF AnomalyFires THEN 15 * ConfUnit ELSE 0)
                       - (IF AgreementFires THEN 10 * ConfUnit ELSE 0))
        /\ TimesRecorded("downgrade") = (IF DowngradeFires THEN 1 ELSE 0)
        /\ TimesRecorded("anomaly") = (IF AnomalyFires THEN 1 ELSE 0)
        /\ TimesRecorded("agreement") = (IF AgreementFires THEN 1 ELSE 0)

----------------------------------------------------------------------------
(* Claims about failing calculators in a whole evaluation                  *)

\* The positions of feature_list whose calculator was found and raised.
FailedCalculators ==
    {i \in DOMAIN feature_list : InErrors(i) /\ feature_list[i] \in Registered}

\* The number of entries the returned all_features has for a feature.
EntriesFor(n) == Cardinality({k \in DOMAIN feature_results : feature_results[k].name = n})

\* C16 as stated: the evaluation completes, and for every calculator that
\* raised the decision's feature results hold a neutral entry (direction 0,
\* strength 0) under that feature's name.
C16_FailureBecomesNeutralResult ==
    pc = "done" =>
        \A i \in FailedCalculators :
            \E k \in DOMAIN feature_results :
                /\ feature_results[k].name = feature_list[i]
                /\ feature_results[k].direction = 0
                /\ feature_results[k].strength = 0

\* C16 amended: the evaluation completes, and a call that raised leaves no
\* entry in the decision's feature results: a feature has as many entries as
\* calls of its calculator that returned.
C16_FailureLeavesNoResult ==
    pc = "done" =>
        \A i \in FailedCalculators :
            EntriesFor(feature_list[i]) =
                Cardinality({j \in DOMAIN feature_list :
                               feature_list[j] = feature_list[i] /\ ~InErrors(j)})

\* A decision was returned after the only call of a calculator raised and a
\* later feature of the list was calculated.
C16_Witness ==
    /\ pc = "done"
    /\ signal \in BuySignals \cup SellSignals \cup {"NEUTRAL"}
    /\ \E i \in FailedCalculators :
          /\ EntriesFor(feature_list[i]) = 0
          /\ i < Len(feature_list)
    /\ feature_results # <<>>

----------------------------------------------------------------------------
(* Claims about repeated evaluations                                       *)

----------------------------------------------------------------------------
(* Claims about single calculators                                         *)

\* FundingRate was calculated on a frame with a last rate.
FundingCalculated ==
    /\ fx_pc = "done"
    /\ fx_feature = "FundingRate"
    /\ ~NotContext(context)
    /\ context.derivatives.present
    /\ context.derivatives.has_funding_rate
    /\ context.derivatives.funding_rows > 0

\* The last rate (thousandths) is beyond 0.01 on either side, and neither
\* extreme branch takes it: above 0.05 in the top 20% of the last 30 rates, or
\* below -0.02 in the bottom 20%.
ModerateFunding ==
    LET rate == context.derivatives.rate
        below == context.derivatives.below_count
    IN /\ Abs(rate) > 10
       /\ ~(rate > 50 /\ below * 10 > 8 * 30)
       /\ ~(rate < -20 /\ below * 10 < 2 * 30)

\* C18: at a moderate funding level FundingRate returns a weak signal in the
\* direction of the funding's sign: +1 for positive funding, -1 for negative.
C18_ModerateFundingFollowsSign ==
    (FundingCalculated /\ ModerateFunding) =>
        /\ fx_result.exists
        /\ fx_result.object.strength = 300
        /\ fx_result.object.direction = (IF context.derivatives.rate > 0 THEN 1 ELSE -1)


AdxReturned == fx_pc = "helper" /\ fx_feature = "_adx_trend_strength"

AdxExample(di_plus) ==
    AdxReturned /\ adx_args = [adx |-> 45, di_plus |-> di_plus, di_minus |-> 10]

AdxBelowThreshold == AdxReturned /\ adx_args.adx # NaN /\ adx_args.adx < 18

\* C19 as stated: for ADX 45, +DI 30, -DI 10 the result is direction +1 and
\* strength 0.15, the 0.125 of the >= 40 branch boosted by 1.2 for the spread
\* of 20; for an ADX below 18 the result is neutral.
C19_AdxExampleIsBoosted ==
    /\ AdxExample(30) =>
          /\ adx_return.direction = 1
          /\ adx_return.strength * 100 = 15 * AdxStrengthUnit
    /\ AdxBelowThreshold => adx_return = [direction |-> 0, strength |-> 0]

\* C19 amended: for ADX 45, +DI 30, -DI 10 the result is direction +1 and
\* strength 0.125, the spread of 20 not being above 20; with +DI 31 the
\* boost applies and the strength is 0.15; for an ADX below 18 the result is
\* neutral.
C19_AdxBoostNeedsSpreadAbove20 ==
    /\ AdxExample(30) =>
          /\ adx_return.direction = 1
          /\ adx_return.strength * 1000 = 125 * AdxStrengthUnit
    /\ AdxExample(31) =>
          /\ adx_return.direction = 1
          /\ adx_return.strength * 100 = 15 * AdxStrengthUnit
    /\ AdxBelowThreshold => adx_return = [direction |-> 0, strength |-> 0]

\* The example of the claim was evaluated.
C19_Witness == AdxExample(30) /\ adx_return.strength > 0

----------------------------------------------------------------------------
(* Claims about the backtest metrics                                       *)

AllProfitable == \A k \in DOMAIN bk_results : bk_results[k].was_profitable

\* C20: the metrics of a non-empty batch in which every trade is profitable
\* report total_trades = the size of the batch, profitable_trades =
\* total_trades, losing_trades = 0, win_rate = 100 and a profit factor above
\* 1, infinite as there are no losses.
C20_AllProfitableBatchMetrics ==
    (bk_pc = "reported" /\ bk_results # <<>> /\ AllProfitable) =>
        /\ bk_metrics.total_trades = Len(bk_results)
        /\ bk_metrics.profitable_trades = bk_metrics.total_trades
        /\ bk_metrics.losing_trades = 0
        /\ bk_metrics.win_rate.num = 100 * bk_metrics.win_rate.den
        /\ bk_metrics.profit_factor.inf

----------------------------------------------------------------------------
(* Claims about the regime filters of Layer 2                              *)

\* The filters have run on the regime of this rules object.
FiltersApplied == rl_pc \in {"conflicts", "signal", "returned"}

AdxValue == ResultNamed(rl_results, "ADX").raw_value

\* Tenths by which each filter scales the score: 10 when it does not apply.
RangingFactor == IF rl_regime.trend = "RANGING" THEN 6 ELSE 10

HighVolFactor == IF rl_regime.volatility = "HIGH" THEN 8 ELSE 10

SqueezeFactor == IF rl_regime.squeeze # Absent THEN 5 ELSE 10

\* C21: an ADX below 18 is classified RANGING, one from 18 up to but not
\* including 30 DEVELOPING and one of 30 or more TRENDING; the filtered score
\* is the raw score times 0.6 if the trend is RANGING, times 0.8 if the
\* volatility is HIGH and times 0.5 if the squeeze flag is set, every
\* applicable factor stacking (0.24 for all three) and none applied when no
\* condition holds.
C21_RegimeFiltersStack ==
    FiltersApplied =>
        /\ HasResult(rl_results, "ADX") /\ AdxValue # NaN =>
              /\ AdxValue < 18 => rl_regime.trend = "RANGING"
              /\ AdxValue >= 18 /\ AdxValue < 30 => rl_regime.trend = "DEVELOPING"
              /\ AdxValue >= 30 => rl_regime.trend = "TRENDING"
        /\ rl_filtered =
              (rl_raw_score \div 1000) * RangingFactor * HighVolFactor * SqueezeFactor

\* All three filters have scaled a non-zero score to 0.24 of it.
C21_Witness ==
    /\ rl_pc = "conflicts"
    /\ rl_regime.trend = "RANGING"
    /\ rl_regime.volatility = "HIGH"
    /\ rl_regime.squeeze # Absent
    /\ rl_raw_score # 0
    /\ rl_filtered * 100 = rl_raw_score * 24

\* No condition holds and the score passes unscaled.
C21_WitnessUnfiltered ==
    /\ rl_pc = "conflicts"
    /\ rl_regime.trend = "DEVELOPING"
    /\ rl_regime.volatility = "NORMAL"
    /\ rl_regime.squeeze = Absent
    /\ rl_raw_score # 0
    /\ rl_filtered = rl_raw_score

\* What the BBWidth result of this rules object reports in metadata['is_squeeze'].
BBWidthReports(v) ==
    HasResult(rl_results, "BBWidth") /\ ResultNamed(rl_results, "BBWidth").is_squeeze = v

\* C22: the squeeze flag is set, and the score halved by the squeeze filter,
\* only when BBWidth detected a compression of the band width; when BBWidth
\* is computed and reports no squeeze, regime_context has no squeeze flag and
\* the filtered score carries no factor 0.5.
C22_SqueezeOnlyOnCompression ==
    FiltersApplied =>
        /\ rl_regime.squeeze # Absent => BBWidthReports("YES")
        /\ BBWidthReports("NO") =>
              /\ rl_regime.squeeze = Absent
              /\ rl_filtered = (rl_raw_score \div 100) * RangingFactor * HighVolFactor

----------------------------------------------------------------------------
(* Claims about conflict resolution in Layer 2                             *)

\* _resolve_conflicts has run on this rules object.
ConflictsResolved == rl_pc \in {"signal", "returned"}

\* Sum of the contributions of one category, entry by entry.
SubScore(cat) ==
    LET idx == { i \in 1..Len(rl_contributions) : rl_contributions[i].category = cat }
        RECURSIVE SumOver(_)
        SumOver(S) == IF S = {} THEN 0
                      ELSE LET i == CHOOSE j \in S : TRUE
                           IN rl_contributions[i].contribution + SumOver(S \ {i})
    IN SumOver(idx)

\* Both sub-scores exceed 2 in magnitude and have opposite signs.
StrongOpposition ==
    LET tech == SubScore("TECHNICAL")
        macro == SubScore("MACRO")
    IN /\ Abs(tech) > 2 * ScoreScale
       /\ Abs(macro) > 2 * ScoreScale
       /\ (tech > 0) # (macro > 0)

\* Tenths by which the two rules of _resolve_conflicts scaled the score.
DivergenceFactor == IF rl_regime.conflict # Absent THEN 7 ELSE 10

FundingFactor == IF rl_regime.funding_confirmation # Absent THEN 12 ELSE 10

\* C23: the score is multiplied by 0.7 and the conflict flag set to
\* TECH_MACRO_DIVERGENCE exactly when the summed TECHNICAL and the summed
\* MACRO contributions both exceed 2 in absolute value and have opposite
\* signs; otherwise the rule leaves the score as it was and sets no flag.
C23_DivergenceExactlyOnStrongOpposition ==
    ConflictsResolved =>
        /\ rl_regime.conflict = (IF StrongOpposition THEN "TECH_MACRO_DIVERGENCE" ELSE Absent)
        /\ rl_adjusted = (rl_filtered \div 100) * DivergenceFactor * FundingFactor

\* A strong opposition has cut a non-zero score to 0.7 of it.
C23_Witness ==
    /\ rl_pc = "signal"
    /\ StrongOpposition
    /\ rl_regime.conflict = "TECH_MACRO_DIVERGENCE"
    /\ rl_regime.funding_confirmation = Absent
    /\ rl_filtered # 0
    /\ rl_adjusted * 10 = rl_filtered * 7

\* A technical sub-score of exactly 2 against a macro sub-score of -3: no flag.
C23_WitnessBoundary ==
    /\ rl_pc = "signal"
    /\ SubScore("TECHNICAL") = 2 * ScoreScale
    /\ SubScore("MACRO") = -3 * ScoreScale
    /\ rl_regime.conflict = Absent
    /\ rl_filtered # 0

\* The FundingRate contribution opposes the score by more than 0.5.
FundingOpposes(score) ==
    \E i \in 1..Len(rl_contributions) :
        /\ rl_contributions[i].name = "FundingRate"
        /\ \/ score > 0 /\ rl_contributions[i].contribution < -500000
           \/ score < 0 /\ rl_contributions[i].contribution > 500000

\* The score after the tech/macro step, in millionths.
ScoreAfterDivergence == (rl_filtered \div 10) * DivergenceFactor

\* C24: the x1.2 funding confirmation is applied exactly when the market
\* type is PERPETUAL or FUTURES and the FundingRate contribution opposes the
\* sign of the score after the tech/macro step by more than 0.5; never for
\* SPOT and never without a FundingRate contribution.
C24_FundingBoostOnlyOnDerivatives ==
    ConflictsResolved =>
        LET boosted == /\ rl_market_type \in {"PERPETUAL", "FUTURES"}
                       /\ FundingOpposes(ScoreAfterDivergence)
        IN /\ (rl_regime.funding_confirmation # Absent) <=> boosted
           /\ rl_adjusted = (ScoreAfterDivergence \div 10) * (IF boosted THEN 12 ELSE 10)

\* A negative funding contribution has confirmed a positive score on a
\* perpetual market.
C24_Witness ==
    /\ rl_pc = "signal"
    /\ rl_market_type = "PERPETUAL"
    /\ rl_filtered > 0
    /\ FundingOpposes(rl_filtered)
    /\ rl_regime.funding_confirmation # Absent
    /\ rl_adjusted = (ScoreAfterDivergence \div 10) * 12

\* The same contribution on a spot market: no boost.
C24_WitnessSpot ==
    /\ rl_pc = "signal"
    /\ rl_market_type = "SPOT"
    /\ rl_filtered < 0
    /\ FundingOpposes(rl_filtered)
    /\ rl_regime.funding_confirmation = Absent
    /\ rl_adjusted = ScoreAfterDivergence

----------------------------------------------------------------------------
(* Claims about the Layer-2 confidence                                     *)

\* apply_rules has returned signal, bias and confidence.
RulesReturned == rl_pc = "returned"

\* int(x) of the non-negative quotient num / den.
Truncated(num, den) == num \div den

\* int(min(100, |score| / 10 * 100)) for a score in millionths.
BaseConfidence == Min(100, Truncated(Abs(rl_adjusted), ScoreScale \div 10))

RangingPenalised == rl_regime.trend = "RANGING" /\ rl_output.signal # "NEUTRAL"

AfterRanging == IF RangingPenalised THEN Truncated(BaseConfidence * 7, 10) ELSE BaseConfidence

AfterConflict == IF rl_regime.conflict # Absent THEN Truncated(AfterRanging * 8, 10) ELSE AfterRanging

C25_WitnessNeutral ==
    /\ RulesReturned
    /\ rl_regime.trend = "RANGING"
    /\ rl_output.signal = "NEUTRAL"
    /\ rl_regime.conflict = Absent
    /\ BaseConfidence >= 2
    /\ rl_output.confidence = BaseConfidence

\* The filters whose condition held in _apply_filters, by the tag each one
\* writes.
AppliedFilterTags ==
    (IF rl_regime.trend = "RANGING" THEN {"ADX_LOW_REDUCED_TREND"} ELSE {})
    \cup (IF rl_regime.volatility = "HIGH" THEN {"HIGH_VOL_CAUTION"} ELSE {})
    \cup (IF rl_regime.squeeze # Absent THEN {"BB_SQUEEZE_WAIT"} ELSE {})

\* The tags regime_context holds under 'filter_applied'.
RecordedFilterTags == {rl_regime.filter_applied} \ {Absent}

\* C26: after apply_rules, regime_context records every filter that scaled
\* the score: when two or three of the ranging, high-volatility and squeeze
\* filters applied in one evaluation, the record of each is still there.
C26_EveryAppliedFilterIsRecorded ==
    RulesReturned => AppliedFilterTags \subseteq RecordedFilterTags

----------------------------------------------------------------------------
(* Claims about the streaks and the segments of the metrics                *)

MetricsReported == bk_pc = "reported" /\ bk_results # <<>>

\* Length of the longest stretch i..j of results that all have the flag
\* was_profitable = flag; 0 when there is none.
LongestRun(flag) ==
    LET runs == { <<i, j>> \in (1..Len(bk_results)) \X (1..Len(bk_results)) :
                    i <= j /\ \A k \in i..j : bk_results[k].was_profitable = flag }
    IN IF runs = {} THEN 0
       ELSE CHOOSE n \in 1..Len(bk_results) :
              /\ \E r \in runs : r[2] - r[1] + 1 = n
              /\ \A r \in runs : r[2] - r[1] + 1 <= n

\* C27: max_consecutive_wins is the length of the longest run of consecutive
\* profitable trades in result order and max_consecutive_losses that of the
\* longest run of consecutive trades that were not profitable: the streak
\* counter starts again at 1 or -1 when the outcome changes sides.
C27_StreaksAreLongestRuns ==
    MetricsReported =>
        /\ bk_metrics.max_consecutive_wins = LongestRun(TRUE)
        /\ bk_metrics.max_consecutive_losses = LongestRun(FALSE)

\* A win between two other outcomes: the streaks restart, the longest run of
\* wins is 1 although two trades won.
C27_Witness ==
    /\ MetricsReported
    /\ Len(bk_results) >= 3
    /\ bk_results[1].was_profitable
    /\ ~bk_results[2].was_profitable
    /\ bk_results[3].was_profitable
    /\ bk_metrics.max_consecutive_wins = 1
    /\ bk_metrics.max_consecutive_losses = 1

\* Sum of the counts of a segment map.
SegmentTotal(segments) ==
    LET RECURSIVE SumOver(_)
        SumOver(S) == IF S = {} THEN 0
                      ELSE LET k == CHOOSE x \in S : TRUE
                           IN segments[k] + SumOver(S \ {k})
    IN SumOver(DOMAIN segments)

\* C29: the confidence buckets partition the evaluated trades: every trade
\* with a confidence in 0..100 is counted in exactly one of the buckets
\* 0-50%, 50-70%, 70-85% and 85-100%, so the bucket counts add up to
\* total_trades, as the per-signal counts do.
C29_ConfidenceBucketsPartitionTrades ==
    MetricsReported =>
        /\ \A k \in DOMAIN bk_results :
              Cardinality({ i \in DOMAIN ConfidenceBins :
                              /\ bk_results[k].confidence >= ConfidenceBins[i].low
                              /\ bk_results[k].confidence < ConfidenceBins[i].high }) = 1
        /\ SegmentTotal(bk_metrics.metrics_by_confidence) = bk_metrics.total_trades
        /\ SegmentTotal(bk_metrics.metrics_by_signal) = bk_metrics.total_trades

----------------------------------------------------------------------------
(* Claims about repeated conflicts                                         *)

\* The opposed pairs of categories among the reported conflicts, each pair
\* as the set of its two categories.
OpposedPairs ==
    { {cs_consensus.conflicts[i].cat1, cs_consensus.conflicts[i].cat2} :
        i \in DOMAIN cs_consensus.conflicts }

\* C28: _detect_conflicts reports each opposed pair of categories at most
\* once: one strong disagreement between two categories gives exactly one
\* conflict entry and so exactly one 10% penalty in
\* adjust_confidence_by_consensus.
C28_OpposedPairReportedOnce ==
    cs_pc # "idle" =>
        LET conflicts == cs_consensus.conflicts
        IN /\ \A i, j \in DOMAIN conflicts :
                {conflicts[i].cat1, conflicts[i].cat2} = {conflicts[j].cat1, conflicts[j].cat2}
                    => i = j
           /\ ConflictPenalty(conflicts) = 10 - Cardinality(OpposedPairs)

----------------------------------------------------------------------------
(* Claims about the quality score                                          *)

QualityAnalyzed == qa_pc = "analyzed"

StrongSignalInHighVolatility ==
    /\ qa_output.regime_context.volatility = "HIGH"
    /\ qa_output.signal \in {"STRONG_BUY", "STRONG_SELL"}

C30_WitnessHighVolatility ==
    /\ QualityAnalyzed
    /\ StrongSignalInHighVolatility
    /\ qa_regime_score = 40

====
